---- MODULE Spec2Model ----
(***************************************************************************)
(* Model of the resilient tool-invocation subsystem of jamf-mcp-agent.    *)
(*                                                                         *)
(* Part 1: MCPClient (src/mcp/client.ts) and the withTimeout race it      *)
(* composes (src/utils.ts).  One caller drives the client, one top-level  *)
(* call at a time; every `await` of the source is a step of its own, and  *)
(* the remote side (handshake, listings, tool calls, reads, closes)       *)
(* answers each awaited request nondeterministically.                     *)
(***************************************************************************)
EXTENDS Integers, Sequences, FiniteSets, TLC

(***************************************************************************)
(* Bounds of the model.                                                    *)
(***************************************************************************)
\* reconnect() increments reconnectAttempt without limit; a transport error
\* that would push it beyond this cap is not generated.
MaxCounter == 6

\* Operations abandoned by a fired deadline that may still be pending at once; a
\* further deadline fires only when one of them has settled.
MaxLate == 1

(***************************************************************************)
(* Program constants.                                                      *)
(***************************************************************************)
DefaultConnectTimeoutMs == 30000
DefaultToolTimeoutMs == 120000
DefaultMaxReconnectAttempts == 5
DefaultReconnectBaseMs == 1000

\* An optional option is the set of its values: {} when it is not given.
UNDEF == {}
NULL == "null"

\* a ?? b
Nullish(a, b) == IF a = UNDEF THEN b ELSE CHOOSE v \in a : TRUE

(***************************************************************************)
(* Errors.  A message is the sequence of its words.                        *)
(***************************************************************************)
NoCause == [name |-> "none", msg |-> <<>>, timeoutMs |-> 0]

\* component and operation are "" where the model does not follow them
MkError(name, msg, timeoutMs, cause) ==
    [name |-> name, msg |-> msg, timeoutMs |-> timeoutMs, cause |-> cause,
     component |-> "", operation |-> ""]

NoError == MkError("none", <<>>, 0, NoCause)

\* what `cause` keeps of an error
AsCause(e) == [name |-> e.name, msg |-> e.msg, timeoutMs |-> e.timeoutMs]

PlainError(msg) == MkError("Error", msg, 0, NoCause)

\* a thrown value that is not an Error (a string)
NonError(msg) == MkError("nonError", msg, 0, NoCause)

MCPError(msg, cause) == [MkError("MCPError", msg, 0, cause) EXCEPT !.component = "mcp"]

TimeoutError(label, ms, component) ==
    [MkError("TimeoutError",
             <<label, "timed", "out", "after", ToString(ms) \o "ms">>,
             ms, NoCause)
       EXCEPT !.component = component, !.operation = label]

InstanceOfError(e) == e.name \in {"Error", "MCPError", "TimeoutError"}

InstanceOfMCPError(e) == e.name = "MCPError"

MsgNotConnected == <<"Not", "connected">>
MsgNotConnectedAfterReconnect == <<"Not", "connected", "after", "reconnect">>
MsgFailedToConnect == <<"Failed", "to", "connect", "to", "MCP", "server">>
MsgUnknownTool(name) == <<"Unknown", "tool:", name>>
MsgMaxReconnect(max) ==
    <<"Max", "reconnect", "attempts", "(" \o ToString(max) \o ")", "exceeded">>

(***************************************************************************)
(* isTransportError: /ECONNREFUSED|ECONNRESET|EPIPE|closed|disconnect/i    *)
(* tested against err.message, for Error instances only.  The search is   *)
(* made word by word; the words of the model's messages contain an        *)
(* alternative of the pattern only as a whole word.                       *)
(***************************************************************************)
TRANSPORT_ERROR_PATTERN ==
    {"ECONNREFUSED", "ECONNRESET", "EPIPE", "closed", "disconnect"}

\* case folding (the /i flag) of the words that occur with capitals
Lower(w) ==
    CASE w = "ECONNREFUSED" -> "econnrefused"
      [] w = "ECONNRESET" -> "econnreset"
      [] w = "EPIPE" -> "epipe"
      [] w = "Closed" -> "closed"
      [] w = "Disconnect" -> "disconnect"
      [] OTHER -> w

PatternTest(msg) ==
    \E i \in 1..Len(msg) :
        \E alt \in TRANSPORT_ERROR_PATTERN : Lower(msg[i]) = Lower(alt)

\* mutant: the instanceof check is dropped
isTransportErrorAnyValue(err) == PatternTest(err.msg)

isTransportError(err) ==
    IF InstanceOfError(err) THEN PatternTest(err.msg) ELSE FALSE

(***************************************************************************)
(* Inputs: the options a client is constructed with, what the caller asks *)
(* for, and what the remote side can answer.                               *)
(***************************************************************************)
MkOptions(kind, cto, tto, max, base) ==
    [transport |-> kind, connectTimeoutMs |-> cto, toolTimeoutMs |-> tto,
     maxReconnectAttempts |-> max, reconnectBaseMs |-> base]

OptionChoices ==
    { MkOptions("http", UNDEF, UNDEF, UNDEF, UNDEF),
      MkOptions("http", {50}, {50}, {2}, {1}),
      MkOptions("http", {50}, UNDEF, {1}, {10}),
      MkOptions("stdio", UNDEF, {50}, {0}, UNDEF) }

MkTool(name, description) == [name |-> name, description |-> description]
MkResource(uri, name) == [uri |-> uri, name |-> name]

\* answers of listTools / listResources
ToolListings ==
    { <<MkTool("getFleetOverview", "test"), MkTool("searchDevices", "test")>>,
      <<MkTool("searchDevices", "test"), MkTool("searchDevices", "again")>>,
      <<>> }

ResourceListings ==
    { <<>>,
      <<MkResource("res://fleet", "Fleet Data")>> }

\* names and uris the caller passes
CallNames == {"getFleetOverview", "nonExistent"}
CallUris == {"test://res"}

\* answers of a remote tool call / resource read
ToolResults ==
    { [content |-> <<"result">>, isError |-> FALSE],
      [content |-> <<"Rate", "exceeded">>, isError |-> TRUE] }

ReadResults ==
    { <<[text |-> "hello world"]>>,
      <<[blob |-> "base64data"]>>,
      <<>> }

CallErrors ==
    { PlainError(<<"ECONNRESET">>),
      PlainError(<<"connection", "Closed", "unexpectedly">>),
      PlainError(<<"Validation", "failed">>),
      NonError(<<"EPIPE">>) }

HandshakeErrors == { PlainError(<<"ECONNREFUSED">>), NonError(<<"refused">>) }
ListToolsErrors == { PlainError(<<"socket", "closed">>) }
ListResourcesErrors == { PlainError(<<"Not", "supported">>) }
CloseErrors == { PlainError(<<"close", "failed">>) }

(***************************************************************************)
(* Values handed back to the caller.                                       *)
(***************************************************************************)
MkValue(kind, text, contents, isError) ==
    [kind |-> kind, text |-> text, contents |-> contents, isError |-> isError]

Void == MkValue("void", "", <<>>, FALSE)

\* `result as CallToolResult`
ToolValue(r) == MkValue("tool", "", r.content, r.isError)

\* content = contents[0]; text if it has one, JSON.stringify(contents) otherwise
ResourceValue(contents) ==
    IF Len(contents) > 0 /\ "text" \in DOMAIN contents[1]
    THEN MkValue("text", contents[1].text, <<>>, FALSE)
    ELSE MkValue("json", "", contents, FALSE)

(***************************************************************************)
(* The tool and resource Maps: entries in insertion order, unique keys.    *)
(***************************************************************************)
MapHas(m, k) == \E i \in 1..Len(m) : m[i].key = k

MapSet(m, k, v) ==
    IF MapHas(m, k)
    THEN [i \in 1..Len(m) |-> IF m[i].key = k THEN [key |-> k, value |-> v] ELSE m[i]]
    ELSE Append(m, [key |-> k, value |-> v])

MapValues(m) == [i \in 1..Len(m) |-> m[i].value]

MapSize(m) == Len(m)

EmptyMap == <<>>

RECURSIVE SetAllTools(_, _)
SetAllTools(m, list) ==
    IF list = <<>> THEN m
    ELSE SetAllTools(MapSet(m, Head(list).name, Head(list)), Tail(list))

RECURSIVE SetAllResources(_, _)
SetAllResources(m, list) ==
    IF list = <<>> THEN m
    ELSE SetAllResources(MapSet(m, Head(list).uri, Head(list)), Tail(list))

Min(a, b) == IF a < b THEN a ELSE b

RECURSIVE Pow2(_)
Pow2(n) == IF n <= 0 THEN 1 ELSE 2 * Pow2(n - 1)

(***************************************************************************)
(* withTimeout: the awaited operation resolves, rejects, or the deadline   *)
(* fires first.  What the awaiting code sees is the first of the three.    *)
(***************************************************************************)
Resolve(v) == [type |-> "resolve", err |-> NoError, value |-> v]
Reject(e, v0) == [type |-> "reject", err |-> e, value |-> v0]
Deadline(v0) == [type |-> "deadline", err |-> NoError, value |-> v0]

Settled(status, err, value) == [status |-> status, err |-> err, value |-> value]

withTimeout(ev, ms, label, component) ==
    CASE ev.type = "resolve" -> Settled("ok", NoError, ev.value)
      [] ev.type = "reject" -> Settled("err", ev.err, ev.value)
      [] ev.type = "deadline" -> Settled("err", TimeoutError(label, ms, component), ev.value)

\* a bare await: no deadline
awaitPlain(ev) ==
    CASE ev.type = "resolve" -> Settled("ok", NoError, ev.value)
      [] ev.type = "reject" -> Settled("err", ev.err, ev.value)

(***************************************************************************)
(* State.                                                                  *)
(***************************************************************************)
VARIABLES
    options,               \* the constructor's argument
    connectTimeoutMs, toolTimeoutMs, maxReconnectAttempts, reconnectBaseMs,
    this,                  \* client, transport, tools, resources, connected, reconnectAttempt
    pc,                    \* where the running call is suspended; "idle" between calls
    op, arg,               \* the running (or last) top-level call and its name / uri
    inReconnect,           \* connect() was entered from reconnect()
    delay,                 \* the last backoff reconnect() slept for
    late,                  \* operations abandoned by a fired deadline, still pending
    outcome,               \* how the last top-level call ended
    lastEvent,             \* the last answer of the remote side that the client awaited
    io,                    \* what the running (or last) call did, counted
    streak,                \* reconnect() calls since the last handshake that succeeded
    attemptNo,             \* the value reconnect() raised the counter to in this call, or 0
    run,                   \* reconnect() calls of successive callTool calls, each of them
                           \* so far followed by a retry that failed with a transport error
    wt,                    \* Part 2: one call of withTimeout, its timer and its promises
    agentOptions,          \* Part 3: the options the Agent was constructed with
    agent,                 \* the locals of the running executeAgentLoop / executeRound
    apc,                   \* where the run is suspended; "idle" before it, "done" after
    agentResult,           \* what run() returned or threw
    trace,                 \* what the run did in the current round and tool call
    extraction,            \* Part 4: a raw output and what parseReport made of it
    mapped,                \* Part 5: a tool list and what mapTools made of it
    sched                  \* Part 6: runningJobs, the shutdown manager, the runJob calls

cfgVars == <<options, connectTimeoutMs, toolTimeoutMs, maxReconnectAttempts, reconnectBaseMs>>

vars == <<options, connectTimeoutMs, toolTimeoutMs, maxReconnectAttempts, reconnectBaseMs,
          this, pc, op, arg, inReconnect, delay, late, outcome, lastEvent, io, streak,
          attemptNo, run, wt, agentOptions, agent, apc, agentResult, trace,
          extraction, mapped, sched>>

clientVars == <<options, connectTimeoutMs, toolTimeoutMs, maxReconnectAttempts,
                reconnectBaseMs, this, pc, op, arg, inReconnect, delay, late, outcome,
                lastEvent, io, streak, attemptNo, run>>

agentVars == <<agentOptions, agent, apc, agentResult, trace>>

\* the state of the other parts, which a step of the client leaves alone
others == <<wt, agentVars, extraction, mapped, sched>>

\* the state of the parts after the Agent
rest == <<extraction, mapped, sched>>

IoZero == [remote |-> 0, reconnects |-> 0, handshakes |-> 0, sleeps |-> 0,
           closes |-> 0, transports |-> 0, discoveries |-> 0]

\* the Agent before run(): no conversation, no round
AgentIdle ==
    [messages |-> <<>>, rounds |-> 0, toolCallCount |-> 0,
     tokenUsage |-> [inputTokens |-> 0, outputTokens |-> 0, totalTokens |-> 0],
     attempt |-> 0, timer |-> "none", bedrockTools |-> <<>>,
     toolUseBlocks |-> <<>>, toolResults |-> <<>>, i |-> 0, count |-> 0, toolAttempt |-> 0]

NoResponse == [content |-> UNDEF, stopReason |-> "none", usage |-> UNDEF]
NoToolAnswer == [content |-> <<>>, isError |-> UNDEF]

\* nothing requested yet: backend requests of the round, callTool calls of the
\* tool-use block, the last sleep, the requests not yet settled ("backend" or
\* the id of the tool-use block), the last answers
NoTrace ==
    [sends |-> 0, calls |-> 0, slept |-> 0, inFlight |-> {},
     lastBackend |-> [type |-> "none", err |-> NoError, response |-> NoResponse],
     lastTool |-> [type |-> "none", err |-> NoError, result |-> NoToolAnswer]]

NoResult ==
    [status |-> "none", err |-> NoError, rawText |-> <<>>, rounds |-> 0,
     toolCallCount |-> 0,
     tokenUsage |-> [inputTokens |-> 0, outputTokens |-> 0, totalTokens |-> 0]]

\* new Agent(mcpClient, o)
NewAgent(o) ==
    /\ agentOptions = o
    /\ agent = AgentIdle
    /\ apc = "idle"
    /\ agentResult = NoResult
    /\ trace = NoTrace

\* the options the tests construct agents with, and a run that is given no round
AgentOptionChoices ==
    { [maxToolRounds |-> 2, requestTimeoutMs |-> UNDEF, readOnlyTools |-> UNDEF],
      [maxToolRounds |-> 1, requestTimeoutMs |-> {50}, readOnlyTools |-> {TRUE}],
      [maxToolRounds |-> 0, requestTimeoutMs |-> UNDEF, readOnlyTools |-> {FALSE}] }

\* nothing was given to parseReport or to mapTools; no job was started
NoExtraction == [state |-> "none", text |-> <<>>, report |-> {}, rawText |-> <<>>]
NoMapping == [state |-> "none", mcpTools |-> <<>>, readOnlyOnly |-> {}, result |-> <<>>]
NoJobs == [state |-> "none"]
RestIdle == extraction = NoExtraction /\ mapped = NoMapping /\ sched = NoJobs

\* withTimeout has not been called
WtIdle ==
    [ms |-> 0, label |-> "", component |-> "", timer |-> "none", promise |-> "none",
     settled |-> [status |-> "none", err |-> NoError, value |-> Void],
     first |-> [type |-> "none", err |-> NoError, value |-> Void], events |-> 0]

Pending == [status |-> "pending", err |-> NoError, value |-> Void]
NoOutcome == [status |-> "none", err |-> NoError, value |-> Void]
Ok(v) == [status |-> "ok", err |-> NoError, value |-> v]
Failed(e) == [status |-> "err", err |-> e, value |-> Void]

NoEvent == [what |-> "none", type |-> "none", err |-> NoError, value |-> Void]
Event(what, ev) == [what |-> what, type |-> ev.type, err |-> ev.err, value |-> ev.value]

\* field initialisers of the class
NewClient ==
    [client |-> NULL, transport |-> NULL, tools |-> EmptyMap, resources |-> EmptyMap,
     connected |-> FALSE, reconnectAttempt |-> 0]

constructor(o) ==
    /\ options = o
    /\ connectTimeoutMs = Nullish(o.connectTimeoutMs, DefaultConnectTimeoutMs)
    /\ toolTimeoutMs = Nullish(o.toolTimeoutMs, DefaultToolTimeoutMs)
    /\ maxReconnectAttempts = Nullish(o.maxReconnectAttempts, DefaultMaxReconnectAttempts)
    /\ reconnectBaseMs = Nullish(o.reconnectBaseMs, DefaultReconnectBaseMs)

ClientInit ==
    /\ \E o \in OptionChoices : constructor(o)
    /\ this = NewClient
    /\ pc = "idle"
    /\ op = "none"
    /\ arg = ""
    /\ inReconnect = FALSE
    /\ delay = 0
    /\ late = {}
    /\ outcome = NoOutcome
    /\ lastEvent = NoEvent
    /\ io = IoZero
    /\ streak = 0
    /\ attemptNo = 0
    /\ run = 0

Init ==
    /\ ClientInit
    /\ wt = WtIdle
    /\ NewAgent([maxToolRounds |-> 2, requestTimeoutMs |-> UNDEF, readOnlyTools |-> UNDEF])
    /\ RestIdle

(***************************************************************************)
(* Accessors.                                                              *)
(***************************************************************************)
isConnected == this.connected
getToolCount == MapSize(this.tools)
getTools == MapValues(this.tools)
getResources == MapValues(this.resources)

(***************************************************************************)
(* Control: how a suspended call goes on.                                  *)
(***************************************************************************)
Return(v) == pc' = "idle" /\ outcome' = Ok(v)
Throw(e) == pc' = "idle" /\ outcome' = Failed(e)
Await(label) == pc' = label /\ outcome' = Pending

Count(c, f) == [c EXCEPT ![f] = @ + 1]

Goto(t, c, label) == this' = t /\ io' = c /\ Await(label)
Ret(t, c, v) == this' = t /\ io' = c /\ Return(v)
Thr(t, c, e) == this' = t /\ io' = c /\ Throw(e)

(***************************************************************************)
(* What the remote side can answer to each awaited request.                *)
(***************************************************************************)
HandshakeEvents ==
    {Resolve(Void), Deadline(Void)} \cup {Reject(e, Void) : e \in HandshakeErrors}

ListToolsEvents ==
    {Resolve(l) : l \in ToolListings} \cup {Reject(e, <<>>) : e \in ListToolsErrors}

ListResourcesEvents ==
    {Resolve(l) : l \in ResourceListings} \cup {Reject(e, <<>>) : e \in ListResourcesErrors}

CloseEvents == {Resolve(Void)} \cup {Reject(e, Void) : e \in CloseErrors}

NoToolResult == [content |-> <<>>, isError |-> FALSE]

CallToolEvents ==
    {Resolve(r) : r \in ToolResults} \cup {Reject(e, NoToolResult) : e \in CallErrors}
        \cup {Deadline(NoToolResult)}

ReadResourceEvents ==
    {Resolve(r) : r \in ReadResults} \cup {Reject(e, <<>>) : e \in CallErrors}
        \cup {Deadline(<<>>)}

RemoteEvents(o) == IF o = "callTool" THEN CallToolEvents ELSE ReadResourceEvents
Label(o) == IF o = "callTool" THEN "mcp.callTool" ELSE "mcp.readResource"
Convert(o, v) == IF o = "callTool" THEN ToolValue(v) ELSE ResourceValue(v)

Abandon(ev, what) == IF ev.type = "deadline" THEN late \cup {what} ELSE late

MayFire(ev) == ev.type = "deadline" => Cardinality(late) < MaxLate

(***************************************************************************)
(* connect() and discoverCapabilities()                                    *)
(***************************************************************************)
createTransport(o) == IF o.transport = "stdio" THEN "stdio" ELSE "http"

\* the retry of callTool / readResource, once reconnect() has returned
retryBegin(t, c) ==
    IF t.client = NULL
    THEN Thr(t, c, MCPError(MsgNotConnectedAfterReconnect, NoCause))
    ELSE Goto(t, Count(c, "remote"), "retry")

\* connect() returns: to the caller, or into the retry when reconnect() ran it
connectReturned(t, c, rc) == IF rc THEN retryBegin(t, c) ELSE Ret(t, c, Void)

\* mutant: the `connected` guard is missing
connectBeginAlways(t, c, rc) ==
    Goto([t EXCEPT !.transport = createTransport(options), !.client = "client"],
         Count(Count(c, "transports"), "handshakes"), "handshake")

connectBegin(t, c, rc) ==
    IF t.connected
    THEN connectReturned(t, c, rc)
    ELSE Goto([t EXCEPT !.transport = createTransport(options), !.client = "client"],
              Count(Count(c, "transports"), "handshakes"), "handshake")

\* mutant: the handshake's error is rethrown as it is
rethrowConnectError(err) == err

wrapConnectError(err) ==
    IF InstanceOfMCPError(err)
    THEN err
    ELSE MCPError(MsgFailedToConnect,
                  IF InstanceOfError(err) THEN AsCause(err) ELSE AsCause(PlainError(err.msg)))

markConnected(t) == [t EXCEPT !.connected = TRUE, !.reconnectAttempt = 0]

discoverBegin(t, c) ==
    IF t.client = NULL
    THEN Thr(t, c, MCPError(MsgNotConnected, NoCause))
    ELSE Goto(t, Count(c, "discoveries"), "listTools")

setTools(t, list) == [t EXCEPT !.tools = SetAllTools(EmptyMap, list)]

setResources(t, list) == [t EXCEPT !.resources = SetAllResources(EmptyMap, list)]

Connect ==
    /\ pc = "idle"
    /\ op' = "connect" /\ arg' = "" /\ inReconnect' = FALSE
    /\ connectBegin(this, IoZero, FALSE)
    /\ attemptNo' = 0 /\ run' = 0
    /\ UNCHANGED <<cfgVars, others, delay, late, lastEvent, streak>>

HandshakeSettle ==
    /\ pc = "handshake"
    /\ \E ev \in HandshakeEvents :
         LET r == withTimeout(ev, connectTimeoutMs, "mcp.connect", "mcp") IN
         /\ MayFire(ev)
         /\ lastEvent' = Event("handshake", ev)
         /\ late' = Abandon(ev, "handshake")
         /\ IF r.status = "ok"
            THEN discoverBegin(markConnected(this), io) /\ streak' = 0 /\ run' = run
            ELSE Thr(this, io, wrapConnectError(r.err)) /\ streak' = streak /\ run' = 0
    /\ UNCHANGED <<cfgVars, others, op, arg, inReconnect, delay, attemptNo>>

ListToolsSettle ==
    /\ pc = "listTools"
    /\ \E ev \in ListToolsEvents :
         LET r == awaitPlain(ev) IN
         /\ lastEvent' = Event("listTools", ev)
         /\ IF r.status = "ok"
            THEN Goto(setTools(this, r.value), io, "listResources") /\ run' = run
            ELSE Thr(this, io, r.err) /\ run' = 0
    /\ UNCHANGED <<cfgVars, others, op, arg, inReconnect, delay, late, streak, attemptNo>>

ListResourcesSettle ==
    /\ pc = "listResources"
    /\ \E ev \in ListResourcesEvents :
         LET r == awaitPlain(ev) IN
         /\ lastEvent' = Event("listResources", ev)
         /\ IF r.status = "ok"
            THEN connectReturned(setResources(this, r.value), io, inReconnect)
            ELSE connectReturned(this, io, inReconnect)
    /\ UNCHANGED <<cfgVars, others, op, arg, inReconnect, delay, late, streak, attemptNo, run>>

(***************************************************************************)
(* disconnect()                                                            *)
(***************************************************************************)
\* mutant: the resource mapping is not cleared
disconnectFinishKeepsResources(t) == [t EXCEPT !.connected = FALSE, !.tools = EmptyMap]

disconnectFinish(t) ==
    [t EXCEPT !.connected = FALSE, !.tools = EmptyMap, !.resources = EmptyMap]

disconnectTransport(t, c) ==
    IF t.transport # NULL
    THEN Goto(t, Count(c, "closes"), "closeTransport")
    ELSE Ret(disconnectFinish(t), c, Void)

disconnectBegin(t, c) ==
    IF t.client # NULL
    THEN Goto(t, Count(c, "closes"), "closeClient")
    ELSE disconnectTransport(t, c)

Disconnect ==
    /\ pc = "idle"
    /\ op' = "disconnect" /\ arg' = "" /\ inReconnect' = FALSE
    /\ disconnectBegin(this, IoZero)
    /\ attemptNo' = 0 /\ run' = 0
    /\ UNCHANGED <<cfgVars, others, delay, late, lastEvent, streak>>

CloseClientSettle ==
    /\ pc = "closeClient"
    /\ \E ev \in CloseEvents :
         LET r == awaitPlain(ev) IN
         /\ lastEvent' = Event("close", ev)
         /\ IF r.status = "ok"
            THEN disconnectTransport([this EXCEPT !.client = NULL], io)
            ELSE Thr(this, io, r.err)
    /\ UNCHANGED <<cfgVars, others, op, arg, inReconnect, delay, late, streak, attemptNo, run>>

CloseTransportSettle ==
    /\ pc = "closeTransport"
    /\ \E ev \in CloseEvents :
         LET r == awaitPlain(ev) IN
         /\ lastEvent' = Event("close", ev)
         /\ IF r.status = "ok"
            THEN Ret(disconnectFinish([this EXCEPT !.transport = NULL]), io, Void)
            ELSE Thr(this, io, r.err)
    /\ UNCHANGED <<cfgVars, others, op, arg, inReconnect, delay, late, streak, attemptNo, run>>

(***************************************************************************)
(* reconnect()                                                             *)
(***************************************************************************)
\* mutant: the attempt is counted from 0
backoffFromZero(n) == reconnectBaseMs * Pow2(n)

\* reconnectBaseMs * 2 ** (reconnectAttempt - 1)
backoff(n) == reconnectBaseMs * Pow2(n - 1)

\* mutant: the limit is reached one attempt early
exhaustedOffByOne(n) == n >= maxReconnectAttempts

\* the limit check made on the incremented counter
exhausted(n) == n > maxReconnectAttempts

\* mutant: the limit check is missing
reconnectBeginNoLimit(t, c) ==
    LET n == t.reconnectAttempt + 1
        t1 == [t EXCEPT !.reconnectAttempt = n]
    IN  /\ Goto(t1, Count(Count(c, "reconnects"), "sleeps"), "sleep")
        /\ delay' = backoff(n)

\* increment, limit check, and the sleep that follows when attempts remain
reconnectBegin(t, c) ==
    LET n == t.reconnectAttempt + 1
        t1 == [t EXCEPT !.reconnectAttempt = n]
    IN  IF exhausted(n)
        THEN /\ Thr(t1, Count(c, "reconnects"),
                    MCPError(MsgMaxReconnect(maxReconnectAttempts), NoCause))
             /\ delay' = delay
        ELSE /\ Goto(t1, Count(Count(c, "reconnects"), "sleeps"), "sleep")
             /\ delay' = backoff(n)

\* the old connection is dropped and connect() runs again
teardownDone(t, c) ==
    connectBegin([t EXCEPT !.client = NULL, !.transport = NULL, !.connected = FALSE],
                 c, TRUE)

teardownTransport(t, c) ==
    IF t.transport # NULL
    THEN Goto(t, Count(c, "closes"), "teardownTransport")
    ELSE teardownDone(t, c)

teardownClient(t, c) ==
    IF t.client # NULL
    THEN Goto(t, Count(c, "closes"), "teardownClient")
    ELSE teardownTransport(t, c)

SleepDone ==
    /\ pc = "sleep"
    /\ teardownClient(this, io)
    /\ UNCHANGED <<cfgVars, others, op, arg, inReconnect, delay, late, lastEvent, streak, attemptNo, run>>

\* close errors are ignored
TeardownClientSettle ==
    /\ pc = "teardownClient"
    /\ \E ev \in CloseEvents :
         /\ lastEvent' = Event("close", ev)
         /\ teardownTransport(this, io)
    /\ UNCHANGED <<cfgVars, others, op, arg, inReconnect, delay, late, streak, attemptNo, run>>

TeardownTransportSettle ==
    /\ pc = "teardownTransport"
    /\ \E ev \in CloseEvents :
         /\ lastEvent' = Event("close", ev)
         /\ teardownDone(this, io)
    /\ UNCHANGED <<cfgVars, others, op, arg, inReconnect, delay, late, streak, attemptNo, run>>

(***************************************************************************)
(* callTool(name, args) and readResource(uri)                              *)
(***************************************************************************)
callToolBegin(t, c, name) ==
    IF t.client = NULL
    THEN Thr(t, c, MCPError(MsgNotConnected, NoCause))
    ELSE IF ~MapHas(t.tools, name)
         THEN Thr(t, c, MCPError(MsgUnknownTool(name), NoCause))
         ELSE Goto(t, Count(c, "remote"), "call")

readResourceBegin(t, c, uri) ==
    IF t.client = NULL
    THEN Thr(t, c, MCPError(MsgNotConnected, NoCause))
    ELSE Goto(t, Count(c, "remote"), "call")

CallTool ==
    /\ pc = "idle"
    /\ \E name \in CallNames :
         /\ op' = "callTool" /\ arg' = name
         /\ callToolBegin(this, IoZero, name)
    /\ inReconnect' = FALSE
    /\ attemptNo' = 0
    /\ UNCHANGED <<cfgVars, others, delay, late, lastEvent, streak, run>>

ReadResource ==
    /\ pc = "idle"
    /\ \E uri \in CallUris :
         /\ op' = "readResource" /\ arg' = uri
         /\ readResourceBegin(this, IoZero, uri)
    /\ inReconnect' = FALSE
    /\ attemptNo' = 0 /\ run' = 0
    /\ UNCHANGED <<cfgVars, others, delay, late, lastEvent, streak>>

\* the catch block of the first attempt
catchFirst(err) == isTransportError(err)

FirstAttemptSettle ==
    /\ pc = "call"
    /\ \E ev \in RemoteEvents(op) :
         LET r == withTimeout(ev, toolTimeoutMs, Label(op), "mcp") IN
         /\ MayFire(ev)
         /\ (r.status = "err" /\ isTransportError(r.err)) => this.reconnectAttempt < MaxCounter
         /\ lastEvent' = Event(op, ev)
         /\ late' = Abandon(ev, op)
         /\ IF r.status = "ok"
            THEN /\ Ret(this, io, Convert(op, r.value))
                 /\ UNCHANGED <<inReconnect, delay, streak, attemptNo, run>>
            ELSE IF catchFirst(r.err)
                 THEN /\ reconnectBegin(this, io)
                      /\ inReconnect' = TRUE
                      /\ streak' = streak + 1
                      /\ attemptNo' = this.reconnectAttempt + 1
                      /\ run' = IF op = "callTool" THEN Min(run + 1, MaxCounter + 1) ELSE run
                 ELSE /\ Thr(this, io, r.err)
                      /\ UNCHANGED <<inReconnect, delay, streak, attemptNo, run>>
    /\ UNCHANGED <<cfgVars, others, op, arg>>

\* mutant: the retry is caught like the first attempt and reconnects again
RetrySettleCatches ==
    /\ pc = "retry"
    /\ \E ev \in RemoteEvents(op) :
         LET r == withTimeout(ev, toolTimeoutMs, Label(op), "mcp") IN
         /\ MayFire(ev)
         /\ (r.status = "err" /\ isTransportError(r.err)) => this.reconnectAttempt < MaxCounter
         /\ lastEvent' = Event(op, ev)
         /\ late' = Abandon(ev, op)
         /\ IF r.status = "ok"
            THEN Ret(this, io, Convert(op, r.value)) /\ delay' = delay
            ELSE IF isTransportError(r.err)
                 THEN reconnectBegin(this, io)
                 ELSE Thr(this, io, r.err) /\ delay' = delay
    /\ UNCHANGED <<cfgVars, others, op, arg, inReconnect, streak, attemptNo, run>>

\* the retry is outside any try: whatever it throws leaves the call
RetrySettle ==
    /\ pc = "retry"
    /\ \E ev \in RemoteEvents(op) :
         LET r == withTimeout(ev, toolTimeoutMs, Label(op), "mcp") IN
         /\ MayFire(ev)
         /\ lastEvent' = Event(op, ev)
         /\ late' = Abandon(ev, op)
         /\ IF r.status = "ok"
            THEN Ret(this, io, Convert(op, r.value))
            ELSE Thr(this, io, r.err)
         /\ run' = IF r.status = "err" /\ InstanceOfError(r.err) /\ PatternTest(r.err.msg)
                   THEN run ELSE 0
    /\ UNCHANGED <<cfgVars, others, op, arg, inReconnect, delay, streak, attemptNo>>

(***************************************************************************)
(* An operation whose deadline fired settles at last: withTimeout has      *)
(* settled already, so nothing is resumed.                                 *)
(***************************************************************************)
LateSettle ==
    /\ \E k \in late : late' = late \ {k}
    /\ UNCHANGED <<cfgVars, others, this, pc, op, arg, inReconnect, delay, outcome, lastEvent,
                   io, streak, attemptNo, run>>

Next ==
    \/ Connect
    \/ HandshakeSettle
    \/ ListToolsSettle
    \/ ListResourcesSettle
    \/ Disconnect
    \/ CloseClientSettle
    \/ CloseTransportSettle
    \/ CallTool
    \/ ReadResource
    \/ FirstAttemptSettle
    \/ SleepDone
    \/ TeardownClientSettle
    \/ TeardownTransportSettle
    \/ RetrySettle
    \/ LateSettle

Spec == Init /\ [][Next]_vars

(***************************************************************************)
(* Part 2: withTimeout(promise, ms, label, component) step by step: the    *)
(* timer it arms, the operation it waits for, and the promise it returns.  *)
(* The operation may settle before or after the timer fires.               *)
(***************************************************************************)
\* the arguments of the call; component is optional and defaults to 'mcp'
WtArguments ==
    [ms : {50, 100, 5000}, label : {"test-op", "mcp.connect"},
     component : {UNDEF, {"bedrock"}, {"scheduler"}}]

\* how the operation ends: the values it resolves with, the errors it rejects with
WtOperation ==
    [values |-> {MkValue("text", "fast", <<>>, FALSE), MkValue("text", "42", <<>>, FALSE)},
     errors |-> {PlainError(<<"original">>), NonError(<<"EPIPE">>)}]

\* mutant: a later resolve / reject replaces the outcome
settleAgain(settled, with) == with

\* resolve(value) / reject(err) of the returned promise: only the first counts
settle(settled, with) == IF settled = Pending THEN with ELSE settled

\* mutant: the timer is left armed
clearTimeoutForgotten(timer) == timer

\* clearTimeout(timer): a timer that has fired stays as it is
clearTimeout(timer) == IF timer = "armed" THEN "cleared" ELSE timer

\* the event e is seen; the first one is remembered
Seen(w, e) ==
    [w EXCEPT !.first = IF @.type = "none" THEN e ELSE @, !.events = @ + 1]

\* the executor: setTimeout, promise.then
WtCall ==
    /\ wt = WtIdle
    /\ \E a \in WtArguments :
         wt' = [WtIdle EXCEPT !.ms = a.ms, !.label = a.label,
                              !.component = Nullish(a.component, "mcp"),
                              !.timer = "armed", !.promise = "pending",
                              !.settled = Pending]
    /\ UNCHANGED <<clientVars, agentVars, rest>>

\* value => { clearTimeout(timer); resolve(value) }
WtOperationResolves ==
    /\ wt.promise = "pending"
    /\ \E v \in WtOperation.values :
         wt' = [Seen(wt, Resolve(v)) EXCEPT !.promise = "fulfilled",
                                            !.timer = clearTimeout(@),
                                            !.settled = settle(@, Ok(v))]
    /\ UNCHANGED <<clientVars, agentVars, rest>>

\* err => { clearTimeout(timer); reject(err) }
WtOperationRejects ==
    /\ wt.promise = "pending"
    /\ \E e \in WtOperation.errors :
         wt' = [Seen(wt, Reject(e, Void)) EXCEPT !.promise = "rejected",
                                                 !.timer = clearTimeout(@),
                                                 !.settled = settle(@, Failed(e))]
    /\ UNCHANGED <<clientVars, agentVars, rest>>

\* the setTimeout callback: reject(new TimeoutError(...))
WtTimerFires ==
    /\ wt.timer = "armed"
    /\ wt' = [Seen(wt, Deadline(Void)) EXCEPT
                !.timer = "fired",
                !.settled = settle(@, Failed(TimeoutError(wt.label, wt.ms, wt.component)))]
    /\ UNCHANGED <<clientVars, agentVars, rest>>

WtNext ==
    \/ WtCall
    \/ WtOperationResolves
    \/ WtOperationRejects
    \/ WtTimerFires

\* the client is left as constructed, with the default options
ClientQuiet == ClientInit /\ options = MkOptions("http", UNDEF, UNDEF, UNDEF, UNDEF)

WtInit == Init /\ ClientQuiet

WtSpec == WtInit /\ [][WtNext]_vars

(***************************************************************************)
(* Part 5: mapTools (tool-mapper.ts, in src/mcp/tool-mapper.test.ts from   *)
(* line 100), defined before the Agent, which calls it.  A tool is a       *)
(* record of its name and its optional description and inputSchema; a      *)
(* schema is named by a string.                                            *)
(***************************************************************************)
McpTool(name, description, inputSchema) ==
    [name |-> name, description |-> description, inputSchema |-> inputSchema]

\* /^(search|list|get|check|read)/, the alternatives
READ_ONLY_PATTERN == {"search", "list", "get", "check", "read"}

\* the lower-case letters a name begins with, as far as the pattern can follow
\* them (the pattern has no /i flag, so GetDevice begins with none)
Leading(name) ==
    CASE name \in {"getFleetOverview", "getDeviceFullProfile"} -> "get"
      [] name = "searchDevices" -> "search"
      [] name = "listPolicies" -> "list"
      [] name = "checkDeviceCompliance" -> "check"
      [] name \in {"readSomething", "readdressDevice"} -> "read"
      [] name = "createPolicy" -> "create"
      [] name = "deleteScript" -> "delete"
      [] name = "resetPassword" -> "reset"
      [] name = "testTool" -> "test"
      [] name \in {"skill_batch_inventory_update", "skill_deploy_policy_by_criteria",
                   "skill_device_search", "skill_find_outdated_devices",
                   "skill_scheduled_compliance_check"} -> "skill"
      [] OTHER -> ""

\* READ_ONLY_PATTERN.test(name)
ReadOnlyTest(name) == Leading(name) \in READ_ONLY_PATTERN

ALWAYS_INCLUDE ==
    { "getFleetOverview", "getSecurityPosture", "getPolicyAnalysis", "getDeviceFullProfile",
      "getDevicesBatch", "getInventorySummary", "checkDeviceCompliance",
      "getDeviceComplianceSummary", "skill_device_search", "skill_find_outdated_devices",
      "skill_scheduled_compliance_check" }

\* mutant: every compound skill is kept as well
isReadOnlyOrSkill(t) ==
    ReadOnlyTest(t.name) \/ t.name \in ALWAYS_INCLUDE \/ Leading(t.name) = "skill"

\* the filter of mapTools
isReadOnly(t) == ReadOnlyTest(t.name) \/ t.name \in ALWAYS_INCLUDE

\* { type: 'object', properties: {} }
EmptyObjectSchema == "{type:object,properties:{}}"

\* mapTools(mcpTools, readOnlyOnly = true); readOnlyOnly is {} when not passed
mapTools(mcpTools, readOnlyOnly) ==
    LET filtered == IF Nullish(readOnlyOnly, TRUE) THEN SelectSeq(mcpTools, isReadOnly)
                    ELSE mcpTools
    IN  [k \in 1..Len(filtered) |->
           [toolSpec |->
              [name |-> filtered[k].name,
               description |-> Nullish(filtered[k].description, ""),
               inputSchema |-> [json |-> Nullish(filtered[k].inputSchema, EmptyObjectSchema)]]]]

\* the tools of the tests, a tool without description and schema, and names
\* that come close to the pattern
MapperTools ==
    { McpTool("getFleetOverview", {"getFleetOverview tool"}, {EmptyObjectSchema}),
      McpTool("searchDevices", {"searchDevices tool"}, {"{type:object,properties:{query}}"}),
      McpTool("createPolicy", {"createPolicy tool"}, {EmptyObjectSchema}),
      McpTool("deleteScript", {"deleteScript tool"}, UNDEF),
      McpTool("skill_batch_inventory_update", {"skill_batch_inventory_update tool"},
              {EmptyObjectSchema}),
      McpTool("skill_device_search", UNDEF, {EmptyObjectSchema}),
      McpTool("readdressDevice", {"readdressDevice tool"}, {EmptyObjectSchema}),
      McpTool("GetDevice", {"GetDevice tool"}, {EmptyObjectSchema}),
      McpTool("testTool", UNDEF, UNDEF) }

\* the lists given to mapTools: up to two tools, and the list of the test
MapperLists ==
    {<<>>} \cup {<<t>> : t \in MapperTools} \cup {<<t, u>> : t, u \in MapperTools}
      \cup { <<McpTool("getFleetOverview", {"x"}, UNDEF), McpTool("searchDevices", {"x"}, UNDEF),
               McpTool("listPolicies", {"x"}, UNDEF), McpTool("createPolicy", {"x"}, UNDEF),
               McpTool("deleteScript", {"x"}, UNDEF),
               McpTool("checkDeviceCompliance", {"x"}, UNDEF),
               McpTool("skill_batch_inventory_update", {"x"}, UNDEF),
               McpTool("skill_deploy_policy_by_criteria", {"x"}, UNDEF),
               McpTool("skill_device_search", {"x"}, UNDEF),
               McpTool("skill_find_outdated_devices", {"x"}, UNDEF),
               McpTool("skill_scheduled_compliance_check", {"x"}, UNDEF),
               McpTool("readSomething", {"x"}, UNDEF)>> }

NewMapping(mcpTools, readOnlyOnly) ==
    mapped = [NoMapping EXCEPT !.state = "given", !.mcpTools = mcpTools,
                               !.readOnlyOnly = readOnlyOnly]

\* one call of mapTools
MapTools ==
    /\ mapped.state = "given"
    /\ mapped' = [mapped EXCEPT !.state = "returned",
                                !.result = mapTools(mapped.mcpTools, mapped.readOnlyOnly)]
    /\ UNCHANGED <<clientVars, wt, agentVars, extraction, sched>>

(***************************************************************************)
(* Part 3: Agent (src/claude/agent.ts): run() -> executeAgentLoop ->       *)
(* executeRoundWithRetry -> executeRound -> callToolWithRetry.  The        *)
(* backend (client.send) and the connection client (mcpClient.callTool)    *)
(* answer nondeterministically.  A text is the sequence of its words; the  *)
(* input of a tool use and the parsed report are not followed.             *)
(***************************************************************************)
RETRY_ATTEMPTS == 3
RETRY_BASE_MS == 2000
TOOL_CALL_DELAY_MS == 500
DefaultRequestTimeoutMs == 120000

\* /too many connections|rate limit|throttl/i, the alternatives word by word
RATE_LIMIT_PATTERN ==
    {<<"too", "many", "connections">>, <<"rate", "limit">>, <<"throttl">>}

\* what the pattern sees of a word: case folded, and the part that an
\* alternative can match inside it
RateWord(w) ==
    CASE w \in {"Too", "too"} -> "too"
      [] w \in {"Rate", "rate"} -> "rate"
      [] w \in {"limit", "limited", "limit,"} -> "limit"
      [] w \in {"throttled", "Throttling", "ThrottlingException:"} -> "throttl"
      [] OTHER -> w

\* RATE_LIMIT_PATTERN.test(msg)
RateLimitTest(msg) ==
    \E alt \in RATE_LIMIT_PATTERN : \E k \in 1..Len(msg) :
        /\ k + Len(alt) - 1 <= Len(msg)
        /\ \A j \in 1..Len(alt) : RateWord(msg[k + j - 1]) = alt[j]

BedrockError(msg) ==
    [MkError("BedrockError", msg, 0, NoCause)
       EXCEPT !.component = "bedrock", !.operation = "converse"]

\* content blocks of a backend response
TextBlock(text) == [text |-> text]
ToolUseBlock(id, name) == [toolUse |-> [toolUseId |-> id, name |-> name]]

\* answers of client.send; output, usage and its counts are optional
Responses ==
    { [content |-> {<<TextBlock(<<"All">>), TextBlock(<<"good">>)>>},
       stopReason |-> "end_turn",
       usage |-> {[inputTokens |-> {10}, outputTokens |-> {5}]}],
      [content |-> {<<TextBlock(<<"Checking">>), ToolUseBlock("tool-1", "getFleetOverview")>>},
       stopReason |-> "tool_use",
       usage |-> {[inputTokens |-> {7}, outputTokens |-> UNDEF]}],
      [content |-> {<<ToolUseBlock("tool-1", "getFleetOverview"),
                      ToolUseBlock("tool-2", "createPolicy")>>},
       stopReason |-> "tool_use", usage |-> UNDEF],
      [content |-> {<<TextBlock(<<"cut">>)>>}, stopReason |-> "max_tokens", usage |-> UNDEF],
      [content |-> {<<TextBlock(<<"bye">>), ToolUseBlock("tool-3", "getFleetOverview")>>},
       stopReason |-> "end_turn", usage |-> UNDEF],
      [content |-> UNDEF, stopReason |-> "tool_use", usage |-> UNDEF] }

\* what client.send can answer: a response or an error; once the abort signal
\* is set it only rejects, as the SDK does for an aborted request
SendEvents(timer) ==
    IF timer = "fired"
    THEN {[type |-> "reject", err |-> e, response |-> NoResponse] : e \in
            { PlainError(<<"Request", "was", "aborted">>),
              PlainError(<<"Request", "was", "throttled">>) }}
    ELSE {[type |-> "resolve", err |-> NoError, response |-> r] : r \in Responses}
           \cup {[type |-> "reject", err |-> e, response |-> NoResponse] : e \in
                   { PlainError(<<"rate", "limit", "exceeded">>),
                     PlainError(<<"invalid", "model", "ID">>) }}

\* the errors MCPClient.callTool itself throws: the two guards, the tool
\* timeout, and the failures of reconnect()
ClientErrors ==
    { MCPError(MsgNotConnected, NoCause),
      MCPError(MsgUnknownTool("createPolicy"), NoCause),
      TimeoutError("mcp.callTool", DefaultToolTimeoutMs, "mcp"),
      MCPError(MsgFailedToConnect, AsCause(PlainError(<<"ECONNREFUSED">>))),
      MCPError(MsgMaxReconnect(DefaultMaxReconnectAttempts), NoCause) }

\* what mcpClient.callTool can answer: results (isError is optional) and errors
ToolEvents ==
    {[type |-> "resolve", err |-> NoError, result |-> r] : r \in
        { [content |-> <<[type |-> "text", text |-> <<"data">>]>>, isError |-> {FALSE}],
          [content |-> <<[type |-> "text", text |-> <<"too", "many", "connections", "-", "try", "later">>]>>,
           isError |-> {TRUE}],
          [content |-> <<[type |-> "text", text |-> <<"Rate", "limited">>]>>, isError |-> {FALSE}],
          [content |-> <<[type |-> "text", text |-> <<"Permission", "denied">>],
                         [type |-> "image"]>>, isError |-> {TRUE}],
          [content |-> <<[type |-> "image"]>>, isError |-> UNDEF] }}
      \cup {[type |-> "reject", err |-> e, result |-> NoToolAnswer] : e \in
        { PlainError(<<"rate", "limit", "exceeded">>),
          PlainError(<<"Permission", "denied">>),
          PlainError(<<"ECONNRESET">>),
          PlainError(<<"Connection", "closed">>),
          PlainError(<<"closed", "-", "too", "many", "connections">>) }}

\* the answers of a client whose callTool fails with its own errors: a
\* result, a rate-limit error, and the errors of the client
ClientToolEvents ==
    {[type |-> "resolve", err |-> NoError,
      result |-> [content |-> <<[type |-> "text", text |-> <<"data">>]>>, isError |-> {FALSE}]]}
      \cup {[type |-> "reject", err |-> e, result |-> NoToolAnswer] : e \in
               {PlainError(<<"rate", "limit", "exceeded">>)} \cup ClientErrors}

\* texts.join('\n')
RECURSIVE JoinLines(_)
JoinLines(texts) ==
    IF texts = <<>> THEN <<>>
    ELSE IF Len(texts) = 1 THEN texts[1]
         ELSE texts[1] \o <<"\n">> \o JoinLines(Tail(texts))

\* the text blocks of a content, joined
TextOf(content) ==
    LET blocks == SelectSeq(content, LAMBDA b : "text" \in DOMAIN b)
    IN  JoinLines([k \in 1..Len(blocks) |-> blocks[k].text])

\* c.type === 'text' ? c.text : JSON.stringify(c), joined
ResultText(content) ==
    JoinLines([k \in 1..Len(content) |->
                 IF content[k].type = "text" THEN content[k].text
                 ELSE <<"{\"type\":\"" \o content[k].type \o "\"}">>])

\* the text of the last assistant message, '' when there is none
LastAssistantText(messages) ==
    LET assistant == SelectSeq(messages, LAMBDA m : m.role = "assistant")
    IN  IF assistant = <<>> THEN <<>> ELSE TextOf(assistant[Len(assistant)].content)

\* mutant: the last attempt is retried as well
shouldRetryOnceMore(msg, attempt) == RateLimitTest(msg) /\ attempt <= RETRY_ATTEMPTS

\* mutant: the transport pattern of the connection client is retried as well
shouldRetryTransport(msg, attempt) ==
    (RateLimitTest(msg) \/ PatternTest(msg)) /\ attempt < RETRY_ATTEMPTS

\* mutant: every failure is retried
shouldRetryAnyError(msg, attempt) == attempt < RETRY_ATTEMPTS

\* RATE_LIMIT_PATTERN.test(...) && attempt < RETRY_ATTEMPTS
shouldRetry(msg, attempt) == RateLimitTest(msg) /\ attempt < RETRY_ATTEMPTS

\* mutant: the same delay before every retry
retryDelayFlat(attempt) == RETRY_BASE_MS

\* RETRY_BASE_MS * 2 ** (attempt - 1)
retryDelay(attempt) == RETRY_BASE_MS * Pow2(attempt - 1)

\* mutant: the error of an aborted request is rethrown as it is
sendErrorAsIs(err, aborted) == err

\* the catch of executeRound: an aborted request is reported as a timeout
sendError(err, aborted) ==
    IF aborted
    THEN BedrockError(<<"Bedrock", "request", "timed", "out", "after",
                        ToString(Nullish(agentOptions.requestTimeoutMs,
                                         DefaultRequestTimeoutMs)) \o "ms">>)
    ELSE err

\* run() returns / throws
finish(a, tr, rawText) ==
    /\ agent' = a /\ trace' = tr /\ apc' = "done"
    /\ agentResult' = [status |-> "ok", err |-> NoError, rawText |-> rawText,
                       rounds |-> a.rounds, toolCallCount |-> a.toolCallCount,
                       tokenUsage |-> a.tokenUsage]

fail(a, tr, err) ==
    /\ agent' = a /\ trace' = tr /\ apc' = "done"
    /\ agentResult' = [NoResult EXCEPT !.status = "err", !.err = err]

\* the run is suspended at label
suspend(a, tr, label) ==
    /\ agent' = a /\ trace' = tr /\ apc' = label
    /\ agentResult' = agentResult

\* executeRound up to the await of client.send: the abort timer is armed
executeRound(a, tr) ==
    suspend([a EXCEPT !.timer = "armed"],
            [tr EXCEPT !.sends = @ + 1, !.inFlight = @ \cup {"backend"}], "send")

\* mutant: one round too many
executeAgentLoopOffByOne(a, tr) ==
    IF a.rounds <= agentOptions.maxToolRounds
    THEN executeRound([a EXCEPT !.rounds = @ + 1, !.attempt = 1], [tr EXCEPT !.sends = 0])
    ELSE finish(a, tr, LastAssistantText(a.messages))

\* the while loop: the next round, or the return when maxToolRounds is reached
executeAgentLoop(a, tr) ==
    IF a.rounds < agentOptions.maxToolRounds
    THEN executeRound([a EXCEPT !.rounds = @ + 1, !.attempt = 1], [tr EXCEPT !.sends = 0])
    ELSE finish(a, tr, LastAssistantText(a.messages))

\* the id of the tool-use block the tool loop is at
toolUseId(a) == a.toolUseBlocks[a.i + 1].toolUse.toolUseId

\* mutant: the calls of all remaining blocks are started together
callToolWithRetryAll(a, tr) ==
    suspend([a EXCEPT !.count = @ + 1, !.toolAttempt = 1],
            [tr EXCEPT !.calls = 1,
                       !.inFlight = @ \cup {a.toolUseBlocks[k].toolUse.toolUseId :
                                               k \in (a.i + 1)..Len(a.toolUseBlocks)}],
            "callTool")

\* toolCallCount++ and the first attempt of callToolWithRetry
callToolWithRetry(a, tr) ==
    suspend([a EXCEPT !.count = @ + 1, !.toolAttempt = 1],
            [tr EXCEPT !.calls = 1, !.inFlight = @ \cup {toolUseId(a)}],
            "callTool")

\* mutant: the tool results are written over the assistant message
toolLoopRewrites(a, tr) ==
    IF a.i < Len(a.toolUseBlocks)
    THEN IF a.i > 0
         THEN suspend(a, [tr EXCEPT !.slept = TOOL_CALL_DELAY_MS], "toolDelay")
         ELSE callToolWithRetry(a, tr)
    ELSE executeAgentLoop(
             [a EXCEPT !.toolCallCount = a.count,
                       !.messages = [@ EXCEPT ![Len(@)] =
                                        [role |-> "user", content |-> a.toolResults]]],
             tr)

\* the tool loop at index i: the throttle and the call, or the end of the round
toolLoop(a, tr) ==
    IF a.i < Len(a.toolUseBlocks)
    THEN IF a.i > 0
         THEN suspend(a, [tr EXCEPT !.slept = TOOL_CALL_DELAY_MS], "toolDelay")
         ELSE callToolWithRetry(a, tr)
    ELSE executeAgentLoop(
             [a EXCEPT !.toolCallCount = a.count,
                       !.messages = Append(@, [role |-> "user", content |-> a.toolResults])],
             tr)

\* mutant: only stopReason end_turn ends the run
roundResponseEndTurnOnly(a, tr, response) ==
    LET assistantContent == Nullish(response.content, <<>>)
        a1 == [a EXCEPT !.messages = Append(@, [role |-> "assistant",
                                                content |-> assistantContent])]
        toolUseBlocks == SelectSeq(assistantContent, LAMBDA b : "toolUse" \in DOMAIN b)
    IN  IF response.stopReason = "end_turn"
        THEN finish(a1, tr, TextOf(assistantContent))
        ELSE toolLoop([a1 EXCEPT !.toolUseBlocks = toolUseBlocks, !.toolResults = <<>>,
                                 !.count = a1.toolCallCount, !.i = 0], tr)

\* executeRound once client.send has resolved
roundResponse(a, tr, response) ==
    LET u == IF response.usage = UNDEF
             THEN [inputTokens |-> {0}, outputTokens |-> {0}]
             ELSE CHOOSE x \in response.usage : TRUE
        inp == a.tokenUsage.inputTokens + Nullish(u.inputTokens, 0)
        out == a.tokenUsage.outputTokens + Nullish(u.outputTokens, 0)
        usage == IF response.usage = UNDEF THEN a.tokenUsage
                 ELSE [inputTokens |-> inp, outputTokens |-> out, totalTokens |-> inp + out]
        assistantContent == Nullish(response.content, <<>>)
        a1 == [a EXCEPT !.tokenUsage = usage,
                        !.messages = Append(@, [role |-> "assistant",
                                                content |-> assistantContent])]
        toolUseBlocks == SelectSeq(assistantContent, LAMBDA b : "toolUse" \in DOMAIN b)
    IN  IF response.stopReason = "end_turn" \/ toolUseBlocks = <<>>
        THEN finish(a1, tr, TextOf(assistantContent))
        ELSE toolLoop([a1 EXCEPT !.toolUseBlocks = toolUseBlocks, !.toolResults = <<>>,
                                 !.count = a1.toolCallCount, !.i = 0], tr)

\* mutant: every tool result answers the first tool-use block of the round
ToolResultBlockFirstId(b, text, isError) ==
    [toolResult |-> [toolUseId |-> agent.toolUseBlocks[1].toolUse.toolUseId,
                     content |-> <<TextBlock(text)>>,
                     status |-> IF isError THEN "error" ELSE "success"]]

\* the tool-result block pushed for tool-use block b
ToolResultBlock(b, text, isError) ==
    [toolResult |-> [toolUseId |-> b.toolUse.toolUseId, content |-> <<TextBlock(text)>>,
                     status |-> IF isError THEN "error" ELSE "success"]]

\* what mcpClient.getTools() gives the Agent: read tools and a write tool
DiscoveredTools ==
    <<McpTool("getFleetOverview", {"test"}, {EmptyObjectSchema}),
      McpTool("searchDevices", {"test"}, {EmptyObjectSchema}),
      McpTool("createPolicy", {"test"}, {EmptyObjectSchema})>>

\* run(): the tool catalog of the run, the first message, and the loop
Run ==
    /\ apc = "idle"
    /\ executeAgentLoop(
           [AgentIdle EXCEPT
              !.bedrockTools = mapTools(DiscoveredTools,
                                        {Nullish(agentOptions.readOnlyTools, FALSE)}),
              !.messages = <<[role |-> "user", content |-> <<TextBlock(<<"user">>)>>]>>],
           NoTrace)
    /\ UNCHANGED <<clientVars, wt, agentOptions, rest>>

\* setTimeout(() => abortController.abort(), timeoutMs) fires
AbortTimerFires ==
    /\ apc = "send" /\ agent.timer = "armed"
    /\ suspend([agent EXCEPT !.timer = "fired"], trace, "send")
    /\ UNCHANGED <<clientVars, wt, agentOptions, rest>>

\* client.send settles: catch / finally of executeRound, catch of
\* executeRoundWithRetry, or the rest of the round
SendSettle ==
    /\ apc = "send"
    /\ \E ev \in SendEvents(agent.timer) :
         LET a == [agent EXCEPT !.timer = clearTimeout(@)]
             tr == [trace EXCEPT !.lastBackend = ev, !.inFlight = @ \ {"backend"}]
             err == sendError(ev.err, agent.timer = "fired")
         IN  IF ev.type = "reject"
             THEN IF shouldRetry(err.msg, a.attempt)
                  THEN suspend(a, [tr EXCEPT !.slept = retryDelay(a.attempt)], "roundBackoff")
                  ELSE fail(a, tr, err)
             ELSE roundResponse(a, tr, ev.response)
    /\ UNCHANGED <<clientVars, wt, agentOptions, rest>>

\* the sleep of executeRoundWithRetry is over: the next attempt of the round
RoundBackoffDone ==
    /\ apc = "roundBackoff"
    /\ executeRound([agent EXCEPT !.attempt = @ + 1], trace)
    /\ UNCHANGED <<clientVars, wt, agentOptions, rest>>

\* sleep(TOOL_CALL_DELAY_MS) is over
ToolDelayDone ==
    /\ apc = "toolDelay"
    /\ callToolWithRetry(agent, trace)
    /\ UNCHANGED <<clientVars, wt, agentOptions, rest>>

\* mutant: an error that is not retried is thrown on, out of the run
ToolSettleOnRethrows(events) ==
    /\ apc = "callTool"
    /\ \E ev \in events :
         LET tr == [trace EXCEPT !.lastTool = ev, !.inFlight = @ \ {toolUseId(agent)}]
             threw == ev.type = "reject"
             text == IF threw THEN <<"Error:">> \o ev.err.msg
                     ELSE ResultText(ev.result.content)
             isError == IF threw THEN TRUE ELSE Nullish(ev.result.isError, FALSE)
             again == IF threw THEN shouldRetry(ev.err.msg, agent.toolAttempt)
                      ELSE isError /\ shouldRetry(text, agent.toolAttempt)
             block == agent.toolUseBlocks[agent.i + 1]
         IN  IF again
             THEN suspend(agent, [tr EXCEPT !.slept = retryDelay(agent.toolAttempt)],
                          "toolBackoff")
             ELSE IF threw
             THEN fail(agent, tr, ev.err)
             ELSE toolLoop([agent EXCEPT
                              !.toolResults = Append(@, ToolResultBlock(block, text, isError)),
                              !.i = @ + 1], tr)
    /\ UNCHANGED <<clientVars, wt, agentOptions, rest>>

\* mcpClient.callTool settles with one of events: the try and the catch of
\* callToolWithRetry, and the push of the tool result
ToolSettleOn(events) ==
    /\ apc = "callTool"
    /\ \E ev \in events :
         LET tr == [trace EXCEPT !.lastTool = ev, !.inFlight = @ \ {toolUseId(agent)}]
             threw == ev.type = "reject"
             text == IF threw THEN <<"Error:">> \o ev.err.msg
                     ELSE ResultText(ev.result.content)
             isError == IF threw THEN TRUE ELSE Nullish(ev.result.isError, FALSE)
             again == IF threw THEN shouldRetry(ev.err.msg, agent.toolAttempt)
                      ELSE isError /\ shouldRetry(text, agent.toolAttempt)
             block == agent.toolUseBlocks[agent.i + 1]
         IN  IF again
             THEN suspend(agent, [tr EXCEPT !.slept = retryDelay(agent.toolAttempt)],
                          "toolBackoff")
             ELSE toolLoop([agent EXCEPT
                              !.toolResults = Append(@, ToolResultBlock(block, text, isError)),
                              !.i = @ + 1], tr)
    /\ UNCHANGED <<clientVars, wt, agentOptions, rest>>

ToolSettle == ToolSettleOn(ToolEvents)

\* the same on a client that fails with its own errors
ToolSettleClient == ToolSettleOn(ClientToolEvents)

\* mutant: every attempt of a call is counted
ToolBackoffDoneCounts ==
    /\ apc = "toolBackoff"
    /\ suspend([agent EXCEPT !.toolAttempt = @ + 1, !.count = @ + 1],
               [trace EXCEPT !.calls = @ + 1, !.inFlight = @ \cup {toolUseId(agent)}],
               "callTool")
    /\ UNCHANGED <<clientVars, wt, agentOptions, rest>>

\* the sleep of callToolWithRetry is over: the next attempt of the call
ToolBackoffDone ==
    /\ apc = "toolBackoff"
    /\ suspend([agent EXCEPT !.toolAttempt = @ + 1],
               [trace EXCEPT !.calls = @ + 1, !.inFlight = @ \cup {toolUseId(agent)}],
               "callTool")
    /\ UNCHANGED <<clientVars, wt, agentOptions, rest>>

AgentNext ==
    \/ Run
    \/ AbortTimerFires
    \/ SendSettle
    \/ RoundBackoffDone
    \/ ToolDelayDone
    \/ ToolSettle
    \/ ToolBackoffDone

AgentInit ==
    /\ ClientQuiet
    /\ wt = WtIdle
    /\ RestIdle
    /\ \E o \in AgentOptionChoices : NewAgent(o)

AgentSpec == AgentInit /\ [][AgentNext]_vars

\* the Agent on a client whose callTool fails with the client's own errors
AgentClientNext ==
    \/ Run
    \/ AbortTimerFires
    \/ SendSettle
    \/ RoundBackoffDone
    \/ ToolDelayDone
    \/ ToolSettleClient
    \/ ToolBackoffDone

AgentClientSpec == AgentInit /\ [][AgentClientNext]_vars

(***************************************************************************)
(* Part 4: parseReport (src/claude/agent.ts).  A raw output is the         *)
(* sequence of its tokens: "ws" is white space, "fence" is a line of  *)
(* three backquotes, "json" and                                            *)
(* the other words are prose, "{" "}" "," are the punctuation of an        *)
(* object, and a member token is one "key":value pair of an object whose   *)
(* value holds no brace, written key:value ("summary:" is "summary":"").   *)
(* A report is {} for null, or {the parsed object}.                        *)
(***************************************************************************)
\* the "key":value pairs that occur in the outputs, as JSON.parse reads them
Member(tok) ==
    CASE tok = "summary:All good" ->
           [key |-> "summary", value |-> [type |-> "string", v |-> "All good"]]
      [] tok = "summary:" ->
           [key |-> "summary", value |-> [type |-> "string", v |-> ""]]
      [] tok = "overallStatus:healthy" ->
           [key |-> "overallStatus", value |-> [type |-> "string", v |-> "healthy"]]
      [] tok = "findings:[]" ->
           [key |-> "findings", value |-> [type |-> "array", v |-> "[]"]]
      [] tok = "findings:none" ->
           [key |-> "findings", value |-> [type |-> "string", v |-> "none"]]
      [] tok = "status:ok" ->
           [key |-> "status", value |-> [type |-> "string", v |-> "ok"]]
      [] tok = "count:5" ->
           [key |-> "count", value |-> [type |-> "number", v |-> "5"]]

MemberTokens ==
    { "summary:All good", "summary:", "overallStatus:healthy",
      "findings:[]", "findings:none", "status:ok", "count:5" }

\* JSON.parse of a span of tokens: an object of members separated by commas,
\* white space allowed between the tokens; a key given twice keeps its last value
JSONParse(span) ==
    LET t == SelectSeq(span, LAMBDA x : x # "ws")
        body == SubSeq(t, 2, Len(t) - 1)
        at == {i \in 1..Len(body) : i % 2 = 1}
        keys == {Member(body[i]).key : i \in at}
        last(k) == CHOOSE i \in at : /\ Member(body[i]).key = k
                                     /\ \A j \in at : Member(body[j]).key = k => j <= i
    IN  IF Len(t) < 2 \/ t[1] # "{" \/ t[Len(t)] # "}"
        THEN [ok |-> FALSE, value |-> {}]
        ELSE IF body = <<>>
             THEN [ok |-> TRUE, value |-> {[k \in {} |-> k]}]
             ELSE IF /\ Len(body) % 2 = 1
                     /\ \A i \in 1..Len(body) :
                          IF i % 2 = 1 THEN body[i] \in MemberTokens ELSE body[i] = ","
                  THEN [ok |-> TRUE, value |-> {[k \in keys |-> Member(body[last(k)]).value]}]
                  ELSE [ok |-> FALSE, value |-> {}]

\* text.match(/fence(?:json)?\s*([\s\S]*?)fence/): the capture group as
\* {span}, or {} when there is no match
fenceMatch(text) ==
    LET fences == {i \in 1..Len(text) : text[i] = "fence"}
        open == CHOOSE i \in fences : \A j \in fences : i <= j
        close == CHOOSE i \in fences \ {open} : \A j \in fences \ {open} : i <= j
        afterJson == IF open + 1 < close /\ text[open + 1] = "json" THEN open + 2 ELSE open + 1
        blanks == {i \in afterJson..(close - 1) : \A j \in afterJson..i : text[j] = "ws"}
    IN  IF Cardinality(fences) < 2 THEN {}
        ELSE {SubSeq(text, afterJson + Cardinality(blanks), close - 1)}

\* json.indexOf(c) and json.lastIndexOf(c), counted from 1; 0 when c is absent
indexOf(json, c) ==
    IF \E i \in 1..Len(json) : json[i] = c
    THEN CHOOSE i \in 1..Len(json) : json[i] = c /\ \A j \in 1..(i - 1) : json[j] # c
    ELSE 0

lastIndexOf(json, c) ==
    IF \E i \in 1..Len(json) : json[i] = c
    THEN CHOOSE i \in 1..Len(json) : json[i] = c /\ \A j \in (i + 1)..Len(json) : json[j] # c
    ELSE 0

\* the truth value of a parsed value in a condition
Truthy(value) ==
    CASE value.type = "string" -> value.v # ""
      [] value.type = "number" -> value.v # "0"
      [] OTHER -> TRUE

\* parsed.summary && parsed.overallStatus && Array.isArray(parsed.findings)
isReport(parsed) ==
    /\ "summary" \in DOMAIN parsed /\ Truthy(parsed["summary"])
    /\ "overallStatus" \in DOMAIN parsed /\ Truthy(parsed["overallStatus"])
    /\ "findings" \in DOMAIN parsed /\ parsed["findings"].type = "array"

parseReport(text) ==
    LET m == fenceMatch(text)
        json == IF m = {} THEN text ELSE CHOOSE span \in m : TRUE
        braceStart == indexOf(json, "{")
        braceEnd == lastIndexOf(json, "}")
        parse == JSONParse(SubSeq(json, braceStart, braceEnd))
    IN  IF \A i \in 1..Len(text) : text[i] = "ws" THEN {}
        ELSE IF braceStart = 0 \/ braceEnd = 0 THEN {}
             ELSE IF parse.ok THEN {parsed \in parse.value : isReport(parsed)}
                  ELSE {}

\* the JSON objects, and what is not one, that the raw outputs hold
ReportObjects ==
    { <<"{", "summary:All good", ",", "overallStatus:healthy", ",",
        "findings:[]", "}">>,
      <<"{", "ws", "status:ok", ",", "findings:[]", ",", "ws",
        "overallStatus:healthy", ",", "summary:All good", "ws", "}">>,
      <<"{", "summary:", ",", "overallStatus:healthy", ",",
        "findings:[]", "}">>,
      <<"{", "summary:All good", ",", "overallStatus:healthy", ",",
        "findings:none", "}">>,
      <<"{", "summary:All good", ",", "findings:[]", "}">>,
      <<"{", "status:ok", ",", "count:5", "}">>,
      <<"{", "}">>,
      <<"{", "ws", "this", "ws", "is", "ws", "not:", "ws", "valid", "ws", "json", "ws", "}">>,
      <<"{", "summary:All good", "overallStatus:healthy", ",",
        "findings:[]", "}">>,
      <<"no", "ws", "json", "ws", "here", "ws", "at", "ws", "all">>,
      <<"}", "ws", "{">>,
      <<"ws", "ws", "ws">>,
      <<>> }

\* the raw outputs: what stands before and after the object
ReportTexts ==
    { before \o object \o after :
        object \in ReportObjects,
        before \in { <<>>, <<"Here", "ws", "is", "ws", "the", "ws", "report:", "ws">>,
                     <<"fence", "json", "ws">>, <<"fence", "ws">>,
                     <<"Report:", "ws", "fence", "json", "ws">>,
                     <<"fence", "ws", "jamf", "ws", "inventory", "ws", "fence", "ws">>,
                     <<"fence", "ws", "jamf", "ws", "inventory", "ws", "fence", "ws",
                       "fence", "json", "ws">> },
        after \in { <<>>, <<"ws", "fence">>, <<"ws", "fence", "ws", "Done.">> } }

NewExtraction(text) == extraction = [NoExtraction EXCEPT !.state = "given", !.text = text]

\* return { report: parseReport(rawText), rawText, ... }
ParseReport ==
    /\ extraction.state = "given"
    /\ extraction' = [extraction EXCEPT !.state = "returned",
                                        !.report = parseReport(extraction.text),
                                        !.rawText = extraction.text]
    /\ UNCHANGED <<clientVars, wt, agentVars, mapped, sched>>

ReportInit ==
    /\ ClientQuiet
    /\ wt = WtIdle
    /\ NewAgent([maxToolRounds |-> 2, requestTimeoutMs |-> UNDEF, readOnlyTools |-> UNDEF])
    /\ mapped = NoMapping /\ sched = NoJobs
    /\ \E text \in ReportTexts : NewExtraction(text)

ReportSpec == ReportInit /\ [][ParseReport]_vars

MapperInit ==
    /\ ClientQuiet
    /\ wt = WtIdle
    /\ NewAgent([maxToolRounds |-> 2, requestTimeoutMs |-> UNDEF, readOnlyTools |-> UNDEF])
    /\ extraction = NoExtraction /\ sched = NoJobs
    /\ \E mcpTools \in MapperLists, readOnlyOnly \in {UNDEF, {TRUE}, {FALSE}} :
          NewMapping(mcpTools, readOnlyOnly)

MapperSpec == MapperInit /\ [][MapTools]_vars

(***************************************************************************)
(* Part 6: the scheduler's runJob (src/unnamed/part_008) with the          *)
(* ShutdownManager (src/shutdown.ts).  runJob is called MaxJobs times, at  *)
(* any moments; each await of a call is a step.  The calls are made as in  *)
(* the tests, without mcp, so no resource is fetched before agent.run.     *)
(***************************************************************************)
MaxJobs == 2
DefaultMaxRetries == 2
DefaultRetryBackoffMs == 30000
DefaultJobTimeoutMs == 600000
SHUTDOWN_TIMEOUT_MS == 30000

ReportTypes == {"compliance", "security"}

\* the cleanup functions registered with onShutdown, in order
CleanupFns == <<"mcp.disconnect", "stopHealthCheck", "server.close">>
JobIds == 1..MaxJobs

\* a runJob call that was not made yet
NewJob ==
    [type |-> "", pc |-> "new", attempt |-> 0, lastError |-> NoError, delay |-> 0,
     runs |-> 0, abandoned |-> 0]

\* config.scheduler and the slack / channelId arguments of the calls
SchedulerConfigs ==
    { [maxRetries |-> UNDEF, retryBackoffMs |-> UNDEF, jobTimeoutMs |-> UNDEF, slack |-> FALSE],
      [maxRetries |-> {0}, retryBackoffMs |-> {10}, jobTimeoutMs |-> {50}, slack |-> TRUE],
      [maxRetries |-> {1}, retryBackoffMs |-> {10}, jobTimeoutMs |-> {5000}, slack |-> TRUE] }

\* the module state of the scheduler and the shutdown manager at start
NewScheduler(config) ==
    sched = [state |-> "up", config |-> config,
             runningJobs |-> [t \in ReportTypes |-> FALSE],
             shuttingDown |-> FALSE, counter |-> 0, inFlight |-> {},
             shutdownPc |-> "none", deadlinePassed |-> FALSE, cleanups |-> 0,
             jobs |-> [j \in JobIds |-> NewJob]]

\* getRunningJobs()
getRunningJobs == {t \in ReportTypes : sched.runningJobs[t]}

\* what agent.run, raced with the job timeout, can end with
AgentRunEvents ==
    { [type |-> "resolve", report |-> TRUE, err |-> NoError],
      [type |-> "resolve", report |-> FALSE, err |-> NoError],
      [type |-> "reject", report |-> FALSE, err |-> PlainError(<<"boom">>)],
      [type |-> "deadline", report |-> FALSE, err |-> NoError] }

\* mutant: the guard lets every call pass
alreadyRunningNever(type) == FALSE

\* runningJobs.get(type)
alreadyRunning(type) == sched.runningJobs[type]

\* the next step of call j is made with job record job and scheduler state sc
Continue(sc, j, job) == sched' = [sc EXCEPT !.jobs[j] = job]

\* the finally block: done() and runningJobs.set(type, false)
finally(sc, j, job) ==
    Continue([sc EXCEPT !.inFlight = @ \ {j}, !.runningJobs[job.type] = FALSE],
             j, [job EXCEPT !.pc = "done"])

\* an attempt begins: agent.run is called under withTimeout
attemptBegin(sc, j, job) ==
    Continue(sc, j, [job EXCEPT !.pc = "run", !.runs = @ + 1])

\* the catch of an attempt, and the loop: the next attempt after a backoff, or
\* the end of the attempts
attemptFailed(sc, j, job, err) ==
    LET maxRetries == Nullish(sc.config.maxRetries, DefaultMaxRetries)
        retryBackoffMs == Nullish(sc.config.retryBackoffMs, DefaultRetryBackoffMs)
        failed == [job EXCEPT !.lastError = err]
    IN  IF job.attempt < maxRetries
        THEN Continue(sc, j, [failed EXCEPT !.attempt = @ + 1, !.pc = "backoff",
                                            !.delay = retryBackoffMs * Pow2(job.attempt)])
        ELSE IF sc.config.slack
             THEN Continue(sc, j, [failed EXCEPT !.pc = "postError"])
             ELSE finally(sc, j, failed)

\* runJob(type, ...) is called, as the j-th call: the guard,
\* runningJobs.set(type, true), trackOperation, and the first attempt up to the
\* await of agent.run
RunJob(j) ==
    /\ sched.state = "up" /\ sched.jobs[j].pc = "new"
    /\ \A i \in JobIds : i < j => sched.jobs[i].pc # "new"
    /\ \E type \in ReportTypes :
         LET job == [sched.jobs[j] EXCEPT !.type = type]
             set == [sched EXCEPT !.runningJobs[type] = TRUE]
         IN  IF alreadyRunning(type)
             THEN Continue(sched, j, [job EXCEPT !.pc = "skipped"])
             ELSE IF sched.shuttingDown
                  THEN Continue(set, j,
                           [job EXCEPT !.pc = "rejected",
                                       !.lastError = PlainError(<<"Cannot", "start", "operation",
                                                                  type \o "-job", "shutting", "down">>)])
                  ELSE attemptBegin([set EXCEPT !.counter = @ + 1, !.inFlight = @ \cup {j}],
                                    j, job)
    /\ UNCHANGED <<clientVars, wt, agentVars, extraction, mapped>>

\* withTimeout(agent.run(...), jobTimeoutMs, type-job, scheduler) settles
AgentRunSettles(j) ==
    /\ sched.state = "up" /\ sched.jobs[j].pc = "run"
    /\ \E ev \in AgentRunEvents :
         LET job == sched.jobs[j]
             jobTimeoutMs == Nullish(sched.config.jobTimeoutMs, DefaultJobTimeoutMs)
         IN  CASE ev.type = "resolve" ->
                    IF sched.config.slack /\ ev.report
                    THEN Continue(sched, j, [job EXCEPT !.pc = "post"])
                    ELSE finally(sched, j, job)
               [] ev.type = "reject" -> attemptFailed(sched, j, job, ev.err)
               [] ev.type = "deadline" ->
                    attemptFailed(sched, j, [job EXCEPT !.abandoned = @ + 1],
                                  TimeoutError(job.type \o "-job", jobTimeoutMs, "scheduler"))
    /\ UNCHANGED <<clientVars, wt, agentVars, extraction, mapped>>

\* slack.postReport settles: the job has succeeded, or the attempt has failed
PostReportSettles(j) ==
    /\ sched.state = "up" /\ sched.jobs[j].pc = "post"
    /\ \/ finally(sched, j, sched.jobs[j])
       \/ attemptFailed(sched, j, sched.jobs[j], PlainError(<<"slack", "failed">>))
    /\ UNCHANGED <<clientVars, wt, agentVars, extraction, mapped>>

\* the sleep before a retry is over
JobBackoffDone(j) ==
    /\ sched.state = "up" /\ sched.jobs[j].pc = "backoff"
    /\ attemptBegin(sched, j, sched.jobs[j])
    /\ UNCHANGED <<clientVars, wt, agentVars, extraction, mapped>>

\* slack.postError(...).catch(() => {}) settles, either way
PostErrorSettles(j) ==
    /\ sched.state = "up" /\ sched.jobs[j].pc = "postError"
    /\ finally(sched, j, sched.jobs[j])
    /\ UNCHANGED <<clientVars, wt, agentVars, extraction, mapped>>

\* an agent.run that the job timeout left behind settles; nobody awaits it
AbandonedRunSettles(j) ==
    /\ sched.state = "up" /\ sched.jobs[j].abandoned > 0
    /\ Continue(sched, j, [sched.jobs[j] EXCEPT !.abandoned = @ - 1])
    /\ UNCHANGED <<clientVars, wt, agentVars, extraction, mapped>>

\* ShutdownManager.shutdown() up to its wait for the operations in flight
Shutdown ==
    /\ sched.state = "up" /\ ~sched.shuttingDown
    /\ sched' = [sched EXCEPT !.shuttingDown = TRUE, !.shutdownPc = "wait"]
    /\ UNCHANGED <<clientVars, wt, agentVars, extraction, mapped>>

\* SHUTDOWN_TIMEOUT_MS have passed since shutdown() began, and the wait loop,
\* the only reader of the deadline, is still running
ShutdownDeadline ==
    /\ sched.state = "up" /\ sched.shutdownPc = "wait" /\ ~sched.deadlinePassed
    /\ sched' = [sched EXCEPT !.deadlinePassed = TRUE]
    /\ UNCHANGED <<clientVars, wt, agentVars, extraction, mapped>>

\* mutant: the wait loop is left at once
waitOverAtOnce(sc) == TRUE

\* the condition of the wait loop is false: nothing in flight, or the deadline
waitOver(sc) == sc.inFlight = {} \/ sc.deadlinePassed

\* the loop over the cleanup functions: the next one is called, or, after the
\* last, process.exit(0)
cleanupNext(sc) ==
    IF sc.cleanups < Len(CleanupFns)
    THEN sched' = [sc EXCEPT !.shutdownPc = "cleanup", !.cleanups = @ + 1]
    ELSE sched' = [sc EXCEPT !.shutdownPc = "exit", !.state = "exited"]

\* a poll of the wait loop finds its condition false: the first cleanup
\* function is called
ShutdownWaitOver ==
    /\ sched.state = "up" /\ sched.shutdownPc = "wait"
    /\ waitOver(sched)
    /\ cleanupNext(sched)
    /\ UNCHANGED <<clientVars, wt, agentVars, extraction, mapped>>

\* a cleanup function settles (an error is logged) and one more follows
CleanupSettles ==
    /\ sched.state = "up" /\ sched.shutdownPc = "cleanup"
    /\ sched.cleanups < Len(CleanupFns)
    /\ cleanupNext(sched)
    /\ UNCHANGED <<clientVars, wt, agentVars, extraction, mapped>>

\* the last cleanup function settles: process.exit(0)
ShutdownExit ==
    /\ sched.state = "up" /\ sched.shutdownPc = "cleanup"
    /\ sched.cleanups = Len(CleanupFns)
    /\ cleanupNext(sched)
    /\ UNCHANGED <<clientVars, wt, agentVars, extraction, mapped>>

SchedNext ==
    \/ \E j \in JobIds : RunJob(j)
    \/ \E j \in JobIds : AgentRunSettles(j)
    \/ \E j \in JobIds : PostReportSettles(j)
    \/ \E j \in JobIds : JobBackoffDone(j)
    \/ \E j \in JobIds : PostErrorSettles(j)
    \/ \E j \in JobIds : AbandonedRunSettles(j)
    \/ Shutdown
    \/ ShutdownDeadline
    \/ ShutdownWaitOver
    \/ CleanupSettles
    \/ ShutdownExit

SchedInit ==
    /\ ClientQuiet
    /\ wt = WtIdle
    /\ NewAgent([maxToolRounds |-> 2, requestTimeoutMs |-> UNDEF, readOnlyTools |-> UNDEF])
    /\ extraction = NoExtraction /\ mapped = NoMapping
    /\ \E config \in SchedulerConfigs : NewScheduler(config)

SchedSpec == SchedInit /\ [][SchedNext]_vars

(***************************************************************************)
(* Claims.                                                                 *)
(***************************************************************************)
\* a step in which the caller starts top-level call o
Starts(o) == pc = "idle" /\ late' = late /\ op' = o

\* the call just started was turned down before any request was sent
TurnedDown(msg) ==
    /\ pc' = "idle"
    /\ outcome' = Failed(MCPError(msg, NoCause))
    /\ io' = IoZero
    /\ this' = this

\* the error the awaiting code sees for a tool call / resource read event
SeenError(e) ==
    IF e.type = "deadline" THEN TimeoutError(Label(e.what), toolTimeoutMs, "mcp") ELSE e.err

MatchesTransportPattern(e) == InstanceOfError(e) /\ PatternTest(e.msg)

\* C1: whenever isConnected() is false, callTool and readResource fail with
\* 'Not connected', send no remote request and start no reconnect.
C1_DisconnectedCallsFail ==
    [][ ((Starts("callTool") \/ Starts("readResource")) /\ ~isConnected)
            => TurnedDown(MsgNotConnected) ]_vars

\* C1 holds of the states in which there is no session object: the guard of
\* the code reads `client`, not `connected`.
C1_NoSessionCallsFail ==
    [][ ((Starts("callTool") \/ Starts("readResource")) /\ this.client = NULL)
            => TurnedDown(MsgNotConnected) ]_vars

\* the current (or last) call is a callTool or a readResource
IsRemoteCall == op \in {"callTool", "readResource"}

\* the outcome a call has when its last remote attempt answered with lastEvent
OutcomeOf(e) ==
    IF e.type = "resolve" THEN Ok(Convert(e.what, e.value)) ELSE Failed(SeenError(e))

\* the errors reconnect() itself can end a call with
ReconnectErrors ==
    {MCPError(MsgMaxReconnect(maxReconnectAttempts), NoCause)}
        \cup {wrapConnectError(SeenHandshake) :
                SeenHandshake \in HandshakeErrors \cup {TimeoutError("mcp.connect", connectTimeoutMs, "mcp")}}
        \cup ListToolsErrors

\* C2: one callTool / readResource call reconnects at most once and sends at
\* most two remote requests; a transport-pattern failure of the first attempt
\* starts the one reconnect; the retry follows exactly when that reconnect
\* returned, and the retry's result or error is the call's.
C2_OneReconnectOneRetry ==
    IsRemoteCall =>
        /\ io.reconnects <= 1 /\ io.remote <= 2
        /\ (io.remote = 2 => io.reconnects = 1)
        /\ (pc = "retry" => io.remote = 2)
        /\ (pc # "call" /\ io.remote = 1 /\ lastEvent.what = op
                /\ lastEvent.type # "resolve" /\ MatchesTransportPattern(SeenError(lastEvent))
              => io.reconnects = 1)
        /\ (pc = "idle" /\ io.remote = 2
              => lastEvent.what = op /\ outcome = OutcomeOf(lastEvent))
        /\ (pc = "idle" /\ io.reconnects = 1 /\ io.remote = 1
              => outcome.status = "err" /\ outcome.err \in ReconnectErrors)

\* C2 witness: a call whose first attempt failed, reconnected and succeeded on retry
C2_Witness ==
    /\ pc = "idle" /\ op = "callTool"
    /\ io.remote = 2 /\ io.reconnects = 1 /\ io.handshakes = 1
    /\ outcome.status = "ok"

\* a step in which the remote attempt of a callTool / readResource call settles
AttemptSettles ==
    /\ pc \in {"call", "retry"}
    /\ pc' # pc
    /\ lastEvent'.what = op

\* C3: when the remote request of callTool / readResource fails with an error
\* outside the transport pattern (a TimeoutError and a thrown non-Error
\* included), that same error reaches the caller, no reconnect starts, and the
\* connection state, both mappings and the reconnect counter stay as they were.
C3_NonTransportErrorRethrown ==
    [][ (AttemptSettles /\ lastEvent'.type # "resolve"
            /\ ~MatchesTransportPattern(SeenError(lastEvent')))
          => /\ pc' = "idle"
             /\ outcome' = Failed(SeenError(lastEvent'))
             /\ io' = io
             /\ this' = this
             /\ UNCHANGED <<delay, streak, attemptNo, inReconnect>> ]_vars

\* C3 witness: a first attempt of a Connected client ended by a thrown non-Error
\* whose text is in the pattern
C3_Witness ==
    /\ pc = "idle" /\ op = "callTool" /\ isConnected
    /\ io.remote = 1 /\ io.reconnects = 0
    /\ lastEvent.what = "callTool" /\ lastEvent.type = "reject"
    /\ ~InstanceOfError(lastEvent.err) /\ PatternTest(lastEvent.err.msg)
    /\ outcome = Failed(lastEvent.err)

\* C4: on a Connected client callTool(name) is rejected as 'Unknown tool'
\* exactly when name is not in the tool mapping, and then nothing is sent.
C4_UnknownToolIffAbsent ==
    [][ (Starts("callTool") /\ isConnected)
          => IF MapHas(this.tools, arg')
             THEN ~(pc' = "idle" /\ outcome'.status = "err")
             ELSE TurnedDown(MsgUnknownTool(arg')) ]_vars

\* C4 holds where the session object exists; it fails only in the state
\* connected /\ client = null that a disconnect() leaves when closing the
\* transport throws.
C4_UnknownToolIffAbsentWithSession ==
    [][ (Starts("callTool") /\ isConnected /\ this.client # NULL)
          => IF MapHas(this.tools, arg')
             THEN ~(pc' = "idle" /\ outcome'.status = "err")
             ELSE TurnedDown(MsgUnknownTool(arg')) ]_vars

MaxExceeded == Failed(MCPError(MsgMaxReconnect(maxReconnectAttempts), NoCause))

\* the current (or last) call has entered reconnect()
Reconnected == IsRemoteCall /\ io.reconnects = 1

\* C5: over successive callTool calls in which every retry sent after a
\* reconnect fails with a transport error, the (N+1)-th reconnect attempt fails
\* with 'Max reconnect attempts exceeded' (N = maxReconnectAttempts).
C5_RetryFailuresExhaust ==
    (op = "callTool" /\ io.reconnects = 1 /\ run = maxReconnectAttempts + 1)
        => (pc = "idle" /\ outcome = MaxExceeded)

\* C5 as amended: the attempts that count are those made since the last
\* handshake that succeeded.  A reconnect attempt fails with 'Max reconnect
\* attempts exceeded' exactly when it is at least the (N+1)-th in a row without
\* a successful handshake in between.
C5_ConsecutiveFailuresExhaust ==
    Reconnected =>
        /\ (streak > maxReconnectAttempts => pc = "idle" /\ outcome = MaxExceeded)
        /\ (pc = "idle" /\ outcome = MaxExceeded => streak > maxReconnectAttempts)

\* C5 witness: with N = 2 the third reconnect attempt in a row has failed
C5_Witness ==
    /\ Reconnected /\ op = "callTool"
    /\ maxReconnectAttempts = 2 /\ streak = 3
    /\ pc = "idle" /\ outcome = MaxExceeded

\* the handshake of the reconnect of the current call failed and ended the call
ReconnectHandshakeFailed ==
    /\ Reconnected /\ pc = "idle"
    /\ io.handshakes = 1
    /\ lastEvent.what = "handshake" /\ lastEvent.type # "resolve"

\* C6: while the handshake of every reconnect fails, each of the first N calls
\* that hit a transport error fails with the connection error and leaves the
\* counter incremented (the k-th leaves it at k); the (N+1)-th fails with
\* 'Max reconnect attempts (N) exceeded' and neither sleeps, nor closes
\* anything, nor attempts a handshake.
C6_FailedReconnectsAccumulate ==
    /\ ReconnectHandshakeFailed
         => /\ outcome.status = "err"
            /\ outcome.err.name = "MCPError" /\ outcome.err.msg = MsgFailedToConnect
            /\ 1 <= streak /\ streak <= maxReconnectAttempts
            /\ this.reconnectAttempt = streak
            /\ attemptNo = streak
    /\ (Reconnected /\ streak = maxReconnectAttempts + 1)
         => /\ pc = "idle" /\ outcome = MaxExceeded
            /\ this.reconnectAttempt = maxReconnectAttempts + 1
            /\ io.sleeps = 0 /\ io.closes = 0 /\ io.handshakes = 0
            /\ io.transports = 0 /\ io.remote = 1

\* C6 witness: N = 2, two calls ended by a failed reconnect handshake, and the
\* third call has ended with the limit error
C6_Witness ==
    /\ op = "callTool" /\ Reconnected /\ pc = "idle"
    /\ maxReconnectAttempts = 2 /\ streak = 3 /\ this.reconnectAttempt = 3
    /\ outcome = MaxExceeded /\ io.sleeps = 0
    /\ ~isConnected

\* the connect() run by the reconnect of the current call has thrown
ReconnectConnectFailed ==
    /\ Reconnected /\ pc = "idle"
    /\ io.handshakes = 1 /\ io.remote = 1

\* C7: the counter is 0 after every connect() that returns, and a reconnect
\* whose connect() fails (handshake error, handshake timeout, failed tool
\* listing) leaves the counter at the value reconnect() raised it to.
C7_CounterResetOnlyOnSuccess ==
    /\ (op = "connect" /\ pc = "idle" /\ outcome.status = "ok")
         => this.reconnectAttempt = 0
    /\ ReconnectConnectFailed
         => (attemptNo >= 1 /\ this.reconnectAttempt = attemptNo)

\* What holds of C7: the counter is 0 after a connect() that made a handshake
\* and returned, and it is kept when the handshake of the reconnect fails.
C7_CounterKeptOnHandshakeFailure ==
    /\ (op = "connect" /\ pc = "idle" /\ outcome.status = "ok" /\ io.handshakes = 1)
         => this.reconnectAttempt = 0
    /\ (ReconnectConnectFailed /\ lastEvent.what = "handshake")
         => (attemptNo >= 1 /\ this.reconnectAttempt = attemptNo)

\* the handshake of the connect() of the current call ran into its deadline,
\* which ended the call
HandshakeTimedOut ==
    /\ pc = "idle" /\ io.handshakes = 1
    /\ lastEvent.what = "handshake" /\ lastEvent.type = "deadline"

\* C8: a connect() whose handshake outlasts connectTimeoutMs fails with a
\* TimeoutError whose timeoutMs is connectTimeoutMs.
C8_ConnectTimeoutIsTimeoutError ==
    (HandshakeTimedOut /\ op = "connect")
        => /\ outcome.status = "err"
           /\ outcome.err.name = "TimeoutError"
           /\ outcome.err.timeoutMs = connectTimeoutMs

\* C8 as amended: it fails with the MCPError 'Failed to connect to MCP server'
\* whose cause is the TimeoutError of the handshake, and that cause carries
\* timeoutMs = connectTimeoutMs.
C8_ConnectTimeoutIsWrapped ==
    HandshakeTimedOut
        => /\ outcome.status = "err"
           /\ outcome.err.name = "MCPError"
           /\ outcome.err.msg = MsgFailedToConnect
           /\ outcome.err.cause.name = "TimeoutError"
           /\ outcome.err.cause.timeoutMs = connectTimeoutMs
           /\ outcome.err.cause.msg[1] = "mcp.connect"

\* C8 witness: a connect() with connectTimeoutMs = 50 has timed out
C8_Witness ==
    /\ HandshakeTimedOut /\ op = "connect"
    /\ connectTimeoutMs = 50
    /\ outcome.status = "err"

\* the connect() of the current call (the caller's, or the one reconnect() ran)
\* has thrown
ConnectFailed ==
    /\ pc = "idle" /\ io.handshakes = 1 /\ outcome.status = "err"
    /\ (op = "connect" \/ (IsRemoteCall /\ io.remote = 1))

\* a handshake abandoned by its deadline completes
LateHandshakeCompletes == "handshake" \in late /\ "handshake" \notin late'

\* C9: after a connect() that failed (handshake error, handshake timeout,
\* failed tool listing) isConnected() is false, and a handshake completing
\* after its deadline fired never makes the client Connected.
C9_NoPartialConnected ==
    /\ [](ConnectFailed => ~isConnected)
    /\ [][LateHandshakeCompletes => (this' = this /\ pc' = pc)]_vars

\* What holds of C9: isConnected() is false after a connect() ended by its
\* handshake, and a late handshake changes nothing.
C9_NoPartialConnectedAfterHandshakeFailure ==
    /\ []((ConnectFailed /\ lastEvent.what = "handshake") => ~isConnected)
    /\ [][LateHandshakeCompletes => (this' = this /\ pc' = pc)]_vars

\* disconnect() has returned
Disconnected == op = "disconnect" /\ pc = "idle" /\ outcome.status = "ok"

\* C10: once disconnect() has returned, getToolCount() is 0, getResources() is
\* empty and isConnected() is false, whatever the state before; a second
\* disconnect() closes nothing and leaves that state as it is.
C10_DisconnectClears ==
    /\ [](Disconnected
            => getToolCount = 0 /\ getResources = <<>> /\ ~isConnected)
    /\ [][ (Disconnected /\ Starts("disconnect"))
            => /\ pc' = "idle" /\ outcome' = Ok(Void)
               /\ io'.closes = 0
               /\ this' = this ]_vars

\* C10 witness: a disconnect() that found nothing to close, right after a
\* disconnect() that closed the session and the transport of a client with
\* tools
C10_Witness ==
    /\ Disconnected /\ io.closes = 0
    /\ lastEvent.what = "close" /\ lastEvent.type = "resolve"
    /\ this.client = NULL /\ this.transport = NULL

\* disconnect() has ended, by returning or by throwing
DisconnectEnded == op = "disconnect" /\ pc = "idle" /\ outcome.status \in {"ok", "err"}

\* C11: disconnect() is best-effort: whatever closing the session or the
\* transport does, disconnect() returns without an error, both mappings are
\* empty and isConnected() is false.
C11_DisconnectBestEffort ==
    DisconnectEnded
        => /\ outcome.status = "ok"
           /\ getToolCount = 0 /\ getResources = <<>>
           /\ ~isConnected

\* C12: connect() on a Connected client returns at once: it creates no
\* transport, makes no handshake and no discovery, and leaves the session, both
\* mappings and the reconnect counter as they were.
C12_ConnectWhenConnectedIsNoOp ==
    [][ (Connect /\ isConnected)
          => /\ pc' = "idle" /\ outcome' = Ok(Void)
             /\ io' = IoZero
             /\ this' = this ]_vars

\* C12 witness: a connect() that did nothing has returned on a Connected client
\* that has tools and a session
C12_Witness ==
    /\ op = "connect" /\ pc = "idle" /\ outcome = Ok(Void)
    /\ io = IoZero
    /\ isConnected /\ this.client # NULL /\ getToolCount > 0

\* the resource listing of the discovery run by the current call has failed,
\* and nothing was awaited since
ResourceListingFailed ==
    /\ lastEvent.what = "listResources" /\ lastEvent.type = "reject"
    /\ io.discoveries = 1

\* C13: when the resource listing of a discovery fails, the connect() (or the
\* reconnect that ran it) still succeeds and getResources() is empty, whatever
\* an earlier connection had discovered.
C13_FailedResourceListingLeavesEmpty ==
    ResourceListingFailed
        => /\ (op = "connect" => pc = "idle" /\ outcome = Ok(Void))
           /\ (IsRemoteCall => pc = "retry")
           /\ getResources = <<>>

\* the returned promise of the withTimeout call has settled
WtSettled == wt.settled.status \in {"ok", "err"}

\* C14: withTimeout settles with the outcome of the first event: the value
\* when the operation resolves first, the operation's own error when it
\* rejects first, a TimeoutError with operation = label, component and
\* timeoutMs = ms when the timer fires first; it is pending before any event,
\* and once settled its outcome never changes, whatever happens later.
C14_FirstEventSettles ==
    /\ [](wt.timer # "none" =>
            CASE wt.first.type = "none" -> wt.settled = Pending
              [] wt.first.type = "resolve" -> wt.settled = Ok(wt.first.value)
              [] wt.first.type = "reject" -> wt.settled = Failed(wt.first.err)
              [] wt.first.type = "deadline" ->
                    /\ wt.settled.status = "err"
                    /\ wt.settled.err.name = "TimeoutError"
                    /\ wt.settled.err.operation = wt.label
                    /\ wt.settled.err.component = wt.component
                    /\ wt.settled.err.timeoutMs = wt.ms)
    /\ [][WtSettled => wt'.settled = wt.settled]_vars

\* C14 witness: the timer fired first and the operation resolved afterwards
C14_Witness ==
    /\ wt.first.type = "deadline" /\ wt.promise = "fulfilled" /\ wt.events = 2
    /\ wt.settled.status = "err" /\ wt.component = "bedrock"

\* C15: once withTimeout has settled no timer is armed: it was cleared when
\* the operation resolved or rejected first, and it has fired otherwise.
C15_NoTimerLeft ==
    WtSettled
        => /\ wt.timer # "armed"
           /\ (wt.first.type \in {"resolve", "reject"} => wt.timer = "cleared")
           /\ (wt.first.type = "deadline" => wt.timer = "fired")

\* C15 witness: the operation rejected before the deadline
C15_Witness ==
    /\ WtSettled /\ wt.first.type = "reject" /\ wt.timer = "cleared"
    /\ wt.settled = Failed(wt.first.err)

\* the assistant messages of the conversation: one for each backend response
AssistantCount == Len(SelectSeq(agent.messages, LAMBDA m : m.role = "assistant"))

\* the conversation ends with the tool results of a round that was not terminal
EndsWithToolResults ==
    /\ Len(agent.messages) > 1
    /\ agent.messages[Len(agent.messages)].role = "user"

Returned == apc = "done" /\ agentResult.status = "ok"

\* C16: a run executes at most maxToolRounds rounds; when the maxToolRounds-th
\* round in a row has ended with tool results (no round was terminal) the run
\* returns normally with rounds = maxToolRounds and the text of the last
\* assistant message as rawText, and it returns that way in no other case.
C16_MaxRoundsReturnsNormally ==
    /\ agent.rounds <= agentOptions.maxToolRounds
    /\ AssistantCount <= agent.rounds
    /\ (EndsWithToolResults /\ AssistantCount = agentOptions.maxToolRounds)
         => /\ Returned
            /\ agentResult.rounds = agentOptions.maxToolRounds
            /\ agentResult.rawText =
                 TextOf(agent.messages[Len(agent.messages) - 1].content)
    /\ (Returned /\ EndsWithToolResults)
         => AssistantCount = agentOptions.maxToolRounds

\* C16 witness: maxToolRounds = 2, two rounds of tool use, and the run has
\* returned the text of the second assistant message
C16_Witness ==
    /\ Returned /\ EndsWithToolResults
    /\ agentOptions.maxToolRounds = 2 /\ agentResult.rounds = 2
    /\ agentResult.rawText = <<"Checking">>
    /\ agentResult.toolCallCount = 3

\* the tool-use block whose call is pending
CurrentBlock == agent.toolUseBlocks[agent.i + 1]

\* the round goes on after the tool result of the pending call was pushed: to
\* the next tool-use block, or, after the last one, to the next backend round
\* (to the return of the run when that was round maxToolRounds)
RoundGoesOn ==
    /\ agent'.i = agent.i + 1
    /\ agentResult'.status # "err"
    /\ IF agent'.i < Len(agent.toolUseBlocks)
       THEN apc' = "toolDelay" /\ agent'.messages = agent.messages
       ELSE /\ agent'.messages =
                 Append(agent.messages, [role |-> "user", content |-> agent'.toolResults])
            /\ IF agent.rounds < agentOptions.maxToolRounds
               THEN apc' = "send" /\ agent'.rounds = agent.rounds + 1
               ELSE apc' = "done" /\ agentResult'.status = "ok"

\* C17: a callTool that throws an error outside the rate-limit pattern is not
\* retried and does not abort the run: its block gets the tool result
\* 'Error: <message>' with status error, callTool was invoked once for it when
\* this was the first attempt, and the round goes on.
C17_ToolErrorBecomesToolResult ==
    [][ (ToolSettle /\ trace'.lastTool.type = "reject"
            /\ ~RateLimitTest(trace'.lastTool.err.msg))
          => /\ agent'.toolResults =
                  Append(agent.toolResults,
                         [toolResult |->
                            [toolUseId |-> CurrentBlock.toolUse.toolUseId,
                             content |-> <<[text |-> <<"Error:">> \o trace'.lastTool.err.msg]>>,
                             status |-> "error"]])
             /\ trace'.calls = trace.calls
             /\ (agent.toolAttempt = 1 => trace.calls = 1)
             /\ RoundGoesOn ]_vars

\* C17 witness: the only call of round 1 threw 'Permission denied' at its first
\* attempt and the second backend request is pending
C17_Witness ==
    /\ apc = "send" /\ agent.rounds = 2
    /\ trace.lastTool.type = "reject" /\ trace.lastTool.err.msg = <<"Permission", "denied">>
    /\ trace.calls = 1 /\ agent.toolCallCount = 1
    /\ agent.toolResults[1].toolResult.status = "error"

\* C18: a backend request (not aborted) that fails with a rate-limit-pattern
\* error is retried after 2000 ms, then 4000 ms, within the same round, up to 3
\* requests; the rate-limit failure of the third, and any other failure at once,
\* ends the run with that error.
C18_RoundRetriedOnRateLimit ==
    /\ [](trace.sends <= 3 /\ (apc \in {"send", "roundBackoff"} => trace.sends = agent.attempt))
    /\ [][ (SendSettle /\ trace'.lastBackend.type = "reject" /\ agent.timer # "fired")
             => IF RateLimitTest(trace'.lastBackend.err.msg) /\ trace.sends < 3
                THEN /\ apc' = "roundBackoff"
                     /\ trace'.slept = (IF trace.sends = 1 THEN 2000 ELSE 4000)
                     /\ agent'.rounds = agent.rounds
                     /\ agent'.messages = agent.messages
                ELSE /\ apc' = "done"
                     /\ agentResult'.status = "err"
                     /\ agentResult'.err = trace'.lastBackend.err ]_vars
    /\ [][ RoundBackoffDone
             => /\ apc' = "send" /\ trace'.sends = trace.sends + 1
                /\ agent'.rounds = agent.rounds ]_vars

\* C18 witness: the third request of a round failed with a rate-limit error,
\* which ended the run
C18_Witness ==
    /\ apc = "done" /\ agentResult.status = "err"
    /\ trace.sends = 3 /\ trace.slept = 4000
    /\ agentResult.err = PlainError(<<"rate", "limit", "exceeded">>)

\* requestTimeoutMs ?? 120000
RequestTimeoutMs ==
    IF agentOptions.requestTimeoutMs = {} THEN 120000
    ELSE CHOOSE ms \in agentOptions.requestTimeoutMs : TRUE

\* C19: when the request timeout has fired while the backend request was
\* pending, the run fails with the BedrockError 'Bedrock request timed out
\* after <requestTimeoutMs>ms', which is not the error the request itself
\* ended with, and no further request is sent.
C19_TimeoutIsBedrockError ==
    [][ (SendSettle /\ agent.timer = "fired")
          => /\ apc' = "done"
             /\ agentResult'.status = "err"
             /\ agentResult'.err.name = "BedrockError"
             /\ agentResult'.err.msg =
                  <<"Bedrock", "request", "timed", "out", "after",
                    ToString(RequestTimeoutMs) \o "ms">>
             /\ agentResult'.err # trace'.lastBackend.err
             /\ trace'.lastBackend.err.name # "BedrockError"
             /\ trace'.sends = trace.sends ]_vars

\* C19 witness: with requestTimeoutMs = 50 the first request was aborted,
\* rejected with a message in the rate-limit pattern, and the run has failed
C19_Witness ==
    /\ apc = "done" /\ agentResult.status = "err"
    /\ agentOptions.requestTimeoutMs = {50}
    /\ agent.timer = "fired" /\ trace.sends = 1
    /\ RateLimitTest(trace.lastBackend.err.msg)
    /\ agentResult.err.name = "BedrockError"

\* the answer of callTool asks for another attempt
RetryWorthy(ev) ==
    IF ev.type = "reject" THEN RateLimitTest(ev.err.msg)
    ELSE ev.result.isError = {TRUE} /\ RateLimitTest(ResultText(ev.result.content))

\* the tool result that the answer of callTool makes for tool-use block b
ResultOf(ev, b) ==
    [toolResult |->
       [toolUseId |-> b.toolUse.toolUseId,
        content |-> <<[text |-> IF ev.type = "reject" THEN <<"Error:">> \o ev.err.msg
                                ELSE ResultText(ev.result.content)]>>,
        status |-> IF ev.type = "reject" \/ ev.result.isError = {TRUE}
                   THEN "error" ELSE "success"]]

\* C20: callTool is invoked at most 3 times for a tool-use block; the first
\* and the second attempt are followed by a backoff and another attempt
\* exactly when they threw a rate-limit-pattern error or returned an error
\* result with such a text; otherwise, and after the third attempt, the answer
\* of that attempt becomes the tool result, with error status when it failed.
C20_ToolCallRetriedOnRateLimit ==
    /\ [](trace.calls <= 3
            /\ (apc \in {"callTool", "toolBackoff"} => trace.calls = agent.toolAttempt))
    /\ [][ ToolSettle
             => /\ (apc' = "toolBackoff") <=> (trace.calls < 3 /\ RetryWorthy(trace'.lastTool))
                /\ IF apc' = "toolBackoff"
                   THEN /\ agent'.toolResults = agent.toolResults
                        /\ agent'.i = agent.i
                        /\ trace'.slept = (IF trace.calls = 1 THEN 2000 ELSE 4000)
                   ELSE agent'.toolResults =
                          Append(agent.toolResults, ResultOf(trace'.lastTool, CurrentBlock)) ]_vars
    /\ [][ ToolBackoffDone
             => /\ apc' = "callTool" /\ trace'.calls = trace.calls + 1
                /\ agent'.i = agent.i ]_vars

\* C20 witness: the third attempt for a block returned the rate-limited error
\* result, which became its tool result
C20_Witness ==
    /\ trace.calls = 3 /\ apc \notin {"callTool", "toolBackoff"}
    /\ trace.lastTool.type = "resolve" /\ RetryWorthy(trace.lastTool)
    /\ agent.toolResults # <<>>
    /\ agent.toolResults[Len(agent.toolResults)].toolResult.status = "error"

\* callTool threw an error whose message is in the transport pattern
ThrewTransport(ev) == ev.type = "reject" /\ PatternTest(ev.err.msg)

\* C21 as claimed: a callTool failure thrown with a transport-pattern message
\* is followed by a backoff and another attempt while attempts are left.
C21_TransportThrowRetried ==
    [][ (ToolSettle /\ ThrewTransport(trace'.lastTool) /\ trace.calls < RETRY_ATTEMPTS)
          => apc' = "toolBackoff" ]_vars

\* C21 amended: a callTool failure thrown with a transport-pattern message is
\* followed by a backoff and another attempt only when the message is in the
\* rate-limit pattern as well and attempts are left; otherwise it becomes the
\* tool result 'Error: <message>' with status error at once and callTool is
\* not invoked again for that block.
C21_TransportThrowNotRetried ==
    [][ (ToolSettle /\ ThrewTransport(trace'.lastTool))
          => IF RateLimitTest(trace'.lastTool.err.msg) /\ trace.calls < RETRY_ATTEMPTS
             THEN apc' = "toolBackoff" /\ agent'.toolResults = agent.toolResults
             ELSE /\ apc' # "toolBackoff"
                  /\ trace'.calls = trace.calls
                  /\ agent'.i = agent.i + 1
                  /\ agent'.toolResults =
                       Append(agent.toolResults,
                              [toolResult |->
                                 [toolUseId |-> CurrentBlock.toolUse.toolUseId,
                                  content |-> <<[text |-> <<"Error:">> \o trace'.lastTool.err.msg]>>,
                                  status |-> "error"]]) ]_vars

\* C21 witness: the first attempt for the only block of round 1 threw
\* 'ECONNRESET'; callTool was invoked once and the error is the tool result
C21_Witness ==
    /\ apc = "send" /\ agent.rounds = 2
    /\ trace.lastTool.type = "reject" /\ trace.lastTool.err.msg = <<"ECONNRESET">>
    /\ trace.calls = 1 /\ Len(agent.toolResults) = 1
    /\ agent.toolResults[1].toolResult.content = <<[text |-> <<"Error:", "ECONNRESET">>]>>

\* the toolUseIds of the tool-use blocks of a content, in order
UseIds(content) ==
    LET uses == SelectSeq(content, LAMBDA b : "toolUse" \in DOMAIN b)
    IN  [k \in 1..Len(uses) |-> uses[k].toolUse.toolUseId]

\* the toolUseIds of a sequence of tool results, in order
ResultIds(results) == [k \in 1..Len(results) |-> results[k].toolResult.toolUseId]

\* C22: every user message after the first holds tool results only, follows an
\* assistant message, and its toolUseIds are, in order and in number, those of
\* the tool-use blocks of that assistant message; while a round is executing
\* its tools, the results collected so far answer the first blocks in order.
C22_ToolResultsFollowToolUses ==
    /\ \A k \in 2..Len(agent.messages) :
          agent.messages[k].role = "user"
            => /\ agent.messages[k - 1].role = "assistant"
               /\ \A j \in 1..Len(agent.messages[k].content) :
                     "toolResult" \in DOMAIN agent.messages[k].content[j]
               /\ ResultIds(agent.messages[k].content)
                    = UseIds(agent.messages[k - 1].content)
    /\ apc \in {"callTool", "toolBackoff", "toolDelay"}
          => /\ Len(agent.toolResults) = agent.i
             /\ agent.i < Len(agent.toolUseBlocks)
             /\ ResultIds(agent.toolResults)
                  = SubSeq(UseIds(agent.messages[Len(agent.messages)].content), 1, agent.i)

\* C22 witness: a round with two tool-use blocks whose second call took three
\* attempts was answered by the results of tool-1 and tool-2, in that order
C22_Witness ==
    /\ Len(agent.messages) >= 3
    /\ agent.messages[3].role = "user"
    /\ ResultIds(agent.messages[3].content) = <<"tool-1", "tool-2">>
    /\ agent.rounds = 2 /\ trace.calls = 3

\* the content of the response that client.send resolved with in this step
AnsweredContent ==
    IF trace'.lastBackend.response.content = {} THEN <<>>
    ELSE CHOOSE c \in trace'.lastBackend.response.content : TRUE

\* C23: a backend response without a tool-use block ends the run, whatever its
\* stop reason: the run returns the text blocks of the response joined as
\* rawText; the response is appended as the assistant message and no user
\* message after it; no tool call is made and no backend request is sent.
C23_NoToolUseEndsRun ==
    [][ (SendSettle /\ trace'.lastBackend.type = "resolve" /\ UseIds(AnsweredContent) = <<>>)
          => /\ apc' = "done"
             /\ agentResult'.status = "ok"
             /\ agentResult'.rawText = TextOf(AnsweredContent)
             /\ agentResult'.rounds = agent.rounds
             /\ agentResult'.toolCallCount = agent.toolCallCount
             /\ agent'.messages =
                  Append(agent.messages, [role |-> "assistant", content |-> AnsweredContent])
             /\ trace'.sends = trace.sends
             /\ trace'.calls = trace.calls ]_vars

\* C23 witness: the second round was answered with stop reason max_tokens and
\* one text block, and the run has returned that text
C23_Witness ==
    /\ Returned /\ agentResult.rounds = 2
    /\ trace.lastBackend.response.stopReason = "max_tokens"
    /\ agentResult.rawText = <<"cut">>
    /\ agent.messages[Len(agent.messages)].role = "assistant"

\* C24 as claimed: a backend response with tool-use blocks does not end the
\* run, whatever its stop reason: the call of its first block is started, and
\* all its blocks are queued to be executed and answered.
C24_ToolUseIsNeverTerminal ==
    [][ (SendSettle /\ trace'.lastBackend.type = "resolve" /\ UseIds(AnsweredContent) # <<>>)
          => /\ apc' = "callTool"
             /\ agentResult'.status = "none"
             /\ UseIds(agent'.toolUseBlocks) = UseIds(AnsweredContent)
             /\ agent'.count = agent.toolCallCount + 1 ]_vars

\* the tokens of the raw output from its first "{" to its last "}"
BraceSpan(text) == SubSeq(text, indexOf(text, "{"), lastIndexOf(text, "}"))

\* the raw output holds exactly one JSON object, and it is well formed
HoldsOneObject(text) ==
    /\ Cardinality({i \in 1..Len(text) : text[i] = "{"}) = 1
    /\ Cardinality({i \in 1..Len(text) : text[i] = "}"}) = 1
    /\ JSONParse(BraceSpan(text)).ok

TheObject(text) == CHOOSE parsed \in JSONParse(BraceSpan(text)).value : TRUE

\* the object has a summary, an overallStatus (not empty) and a findings sequence
HasReportFields(parsed) ==
    /\ {"summary", "overallStatus", "findings"} \subseteq DOMAIN parsed
    /\ parsed["summary"].v # "" /\ parsed["overallStatus"].v # ""
    /\ parsed["findings"].type = "array"

\* C25 as claimed: report extraction returns normally with rawText the raw
\* output as it was; from an output that holds exactly one well-formed JSON
\* object, fenced or not, with summary, overallStatus and a findings sequence
\* the report is that object; from an output without a brace pair, with a
\* brace span that does not parse, or with an object that lacks one of the
\* three fields, the report is null.
C25_ReportExtraction ==
    extraction.state = "returned"
      => /\ extraction.rawText = extraction.text
         /\ (HoldsOneObject(extraction.text) /\ HasReportFields(TheObject(extraction.text)))
              => extraction.report = {TheObject(extraction.text)}
         /\ ( \/ indexOf(extraction.text, "{") = 0
              \/ indexOf(extraction.text, "}") = 0
              \/ ~JSONParse(BraceSpan(extraction.text)).ok
              \/ ~({"summary", "overallStatus", "findings"}
                     \subseteq DOMAIN TheObject(extraction.text)) )
              => extraction.report = {}

\* the names the claim keeps when write tools are excluded: they start with
\* search, list, get, check or read, or are on the allowlist
KeptName(name) ==
    \/ name \in { "getFleetOverview", "searchDevices", "listPolicies", "checkDeviceCompliance",
                   "readSomething", "readdressDevice", "getDeviceFullProfile" }
    \/ name \in { "skill_device_search", "skill_find_outdated_devices",
                   "skill_scheduled_compliance_check" }

\* the tools the claim expects for a list and a mode, in the input's order
ExpectedTools(mcpTools, writeExcluded) ==
    IF writeExcluded THEN SelectSeq(mcpTools, LAMBDA t : KeptName(t.name)) ELSE mcpTools

CatalogNames == {agent.bedrockTools[k].toolSpec.name : k \in 1..Len(agent.bedrockTools)}

\* C27 as claimed: an Agent that was not given readOnlyTools = false sends
\* only read-only tools to the backend.
C27_ReadOnlyByDefault ==
    (apc # "idle" /\ agentOptions.readOnlyTools # {FALSE})
      => \A name \in CatalogNames : KeptName(name)

\* C28 as claimed: in a run with write tools excluded, the name passed to
\* callTool is a name of the catalog that was sent to the backend.
C28_OnlyCatalogToolsCalled ==
    (apc = "callTool" /\ agentOptions.readOnlyTools = {TRUE})
      => CurrentBlock.toolUse.name \in CatalogNames

\* call j of runJob has passed the guard and has not settled
Executing(j) == sched.jobs[j].pc \in {"run", "post", "backoff", "postError"}

\* C29: at most one runJob call of a type is executing at any time, and then
\* the type is reported as running; a runJob called for a type that has a call
\* executing returns at once, without any call of agent.run.
C29_SingleFlight ==
    /\ [](\A i, j \in JobIds :
            (Executing(i) /\ Executing(j) /\ sched.jobs[i].type = sched.jobs[j].type) => i = j)
    /\ [](\A j \in JobIds : Executing(j) => sched.jobs[j].type \in getRunningJobs)
    /\ [][ \A j \in JobIds :
             (RunJob(j) /\ \E i \in JobIds : Executing(i)
                                              /\ sched.jobs[i].type = sched'.jobs[j].type)
               => /\ sched'.jobs[j].pc = "skipped"
                  /\ \A i \in JobIds : sched'.jobs[i].runs = sched.jobs[i].runs ]_vars

\* C29 witness: a call for the type of a call that is sleeping before its
\* retry was skipped, without a call of agent.run
C29_Witness ==
    /\ sched.state = "up"
    /\ sched.jobs[1].pc = "backoff" /\ sched.jobs[1].type = "compliance"
    /\ sched.jobs[2].pc = "skipped" /\ sched.jobs[2].type = "compliance"
    /\ sched.jobs[2].runs = 0 /\ sched.jobs[1].runs = 1

\* C30 as claimed: a type is reported as running only while a call that
\* passed the guard for it has not settled: once every such call has settled
\* (done, or rejected by the shutdown manager) the type is released.
C30_GuardReleased ==
    sched.state = "up"
      => \A t \in getRunningJobs : \E j \in JobIds : Executing(j) /\ sched.jobs[j].type = t

\* the agent.run calls in flight on the shared Agent: those a runJob call awaits
\* and those its job timeout left behind
RunsInFlight ==
    Cardinality({j \in JobIds : sched.jobs[j].pc = "run"})
        + Cardinality({jk \in JobIds \X (1..(DefaultMaxRetries + 1)) :
                          jk[2] <= sched.jobs[jk[1]].abandoned})

\* C31: the runs the scheduler starts on the one shared Agent and client are
\* serialized: at most one agent.run is in flight at any time, across job
\* types and across a job's timeout and retry.
C31_RunsSerialized == sched.state = "up" => RunsInFlight <= 1

\* what holds of C31: among the calls of one job type at most one awaits an
\* agent.run at any time
C31_RunsOfOneTypeSerialized ==
    sched.state = "up" =>
        \A t \in ReportTypes :
            Cardinality({j \in JobIds : sched.jobs[j].type = t /\ sched.jobs[j].pc = "run"}) <= 1

\* C32: during shutdown() no cleanup function starts while a tracked operation
\* is in flight, unless the shutdown deadline has passed; and once shutdown has
\* begun trackOperation throws, so that the in-flight count never grows again
\* (nor does the counter of operation ids) and shuttingDown stays set.
C32_CleanupAfterInFlight ==
    /\ [][ sched'.cleanups > sched.cleanups
              => (sched.shuttingDown /\ (sched.inFlight = {} \/ sched.deadlinePassed)) ]_vars
    /\ [][ sched.shuttingDown
              => /\ sched'.shuttingDown
                 /\ sched'.inFlight \subseteq sched.inFlight
                 /\ sched'.counter = sched.counter
                 /\ \A j \in JobIds :
                      (sched.jobs[j].pc = "new" /\ sched'.jobs[j].pc # "new")
                        => sched'.jobs[j].pc \in {"skipped", "rejected"} ]_vars

\* C32 witness: shutdown began while a job was in flight, waited for it, and
\* then ran the cleanup functions before the deadline; a call made meanwhile
\* was rejected
C32_Witness ==
    /\ sched.shuttingDown /\ ~sched.deadlinePassed
    /\ sched.cleanups = Len(CleanupFns)
    /\ sched.jobs[1].pc = "done" /\ sched.jobs[1].runs = 2
    /\ sched.jobs[2].pc = "rejected"

\* the run has started and its conversation exists
Running == apc # "idle"

\* a step in which a request to the backend is answered / fails
BackendAnswers == apc = "send" /\ trace'.lastBackend.type = "resolve" /\ apc' # "send"
BackendFails == apc = "send" /\ trace'.lastBackend.type = "reject" /\ apc' # "send"

\* a step that ends the tool loop of a round
RoundEnds == apc = "callTool" /\ apc' \in {"send", "done"}

\* C33: the conversation only grows by appending.  It starts as one user
\* message; a backend request that is answered appends exactly one assistant
\* message, the end of a round that is not terminal exactly one user message of
\* tool results; a failed request appends nothing, so that the retry of a
\* round sends the conversation of the failed attempt; no message is changed
\* or removed, and the roles alternate user / assistant.
C33_ConversationAppendOnly ==
    /\ [](Running =>
            /\ Len(agent.messages) >= 1
            /\ \A k \in 1..Len(agent.messages) :
                  agent.messages[k].role = IF k % 2 = 1 THEN "user" ELSE "assistant"
            /\ (apc \in {"send", "roundBackoff"} => Len(agent.messages) = 2 * agent.rounds - 1)
            /\ (apc \in {"callTool", "toolDelay", "toolBackoff"}
                  => Len(agent.messages) = 2 * agent.rounds))
    /\ [][ apc = "idle" /\ apc' # "idle"
              => (Len(agent'.messages) = 1 /\ agent'.messages[1].role = "user") ]_vars
    /\ [][ Running
              => /\ Len(agent'.messages) >= Len(agent.messages)
                 /\ SubSeq(agent'.messages, 1, Len(agent.messages)) = agent.messages
                 /\ Len(agent'.messages) =
                        Len(agent.messages) + (IF BackendAnswers \/ RoundEnds THEN 1 ELSE 0)
                 /\ BackendAnswers
                      => agent'.messages[Len(agent'.messages)] =
                            [role |-> "assistant",
                             content |-> Nullish(trace'.lastBackend.response.content, <<>>)]
                 /\ RoundEnds
                      => /\ agent'.messages[Len(agent'.messages)].role = "user"
                         /\ Len(agent'.messages[Len(agent'.messages)].content)
                               = Len(agent.toolUseBlocks)
                 /\ BackendFails => agent'.messages = agent.messages ]_vars

\* C33 witness: after a full round (user, assistant, tool results) the request
\* of round 2 has failed and waits for its retry with the three messages
C33_Witness ==
    /\ apc = "roundBackoff" /\ agent.rounds = 2
    /\ Len(agent.messages) = 3
    /\ agent.messages[3].role = "user" /\ Len(agent.messages[3].content) = 2

\* C34: within a run at most one request is in flight at any time.  While the
\* call for a tool-use block is pending, nothing else is, and the results of
\* all earlier blocks of the round have been pushed, so that the call for a
\* block, its retries and backoffs included, is over before the call for the
\* next block starts; a backend request is pending only with no tool call
\* pending; during a throttle delay or a backoff nothing is pending.
C34_OneRequestInFlight ==
    /\ [](Cardinality(trace.inFlight) <= 1)
    /\ [](apc = "send" => trace.inFlight = {"backend"})
    /\ [](apc = "callTool"
            => /\ agent.i < Len(agent.toolUseBlocks)
               /\ trace.inFlight = {agent.toolUseBlocks[agent.i + 1].toolUse.toolUseId}
               /\ Len(agent.toolResults) = agent.i)
    /\ [](apc \in {"toolDelay", "toolBackoff", "roundBackoff", "done"} => trace.inFlight = {})
    /\ [][ agent'.count = agent.count + 1
              => /\ trace.inFlight \subseteq {"backend"}
                 /\ Len(agent'.toolResults) = agent'.i
                 /\ agent'.count = agent'.toolCallCount + agent'.i + 1 ]_vars
    /\ [][ (Running /\ trace'.sends = trace.sends + 1)
              => IF apc = "callTool"
                 THEN /\ agent.i + 1 = Len(agent.toolUseBlocks)
                      /\ Len(agent'.messages[Len(agent'.messages)].content)
                            = Len(agent.toolUseBlocks)
                 ELSE trace.inFlight = {} ]_vars

\* C34 witness: the call for the second block of a round is pending after the
\* call for the first block was retried twice
C34_Witness ==
    /\ apc = "callTool" /\ agent.i = 1 /\ Len(agent.toolUseBlocks) = 2
    /\ trace.inFlight = {"tool-2"} /\ trace.calls = 2
    /\ Len(agent.toolResults) = 1

\* the tool results in the conversation: one for each tool-use block executed
\* in a round that has ended
RECURSIVE ResultCount(_)
ResultCount(messages) ==
    IF Len(messages) <= 1 THEN 0
    ELSE (IF messages[Len(messages)].role = "user" THEN Len(messages[Len(messages)].content)
          ELSE 0) + ResultCount(SubSeq(messages, 1, Len(messages) - 1))

\* C35: the counters of a run never decrease and count logical steps, not
\* attempts.  rounds is the number of rounds begun (those answered, and the
\* one in progress or failed), whatever the retries of a round; the tool-call counter is the number of tool-use blocks whose call
\* was started, whatever the retries of a call (the run's toolCallCount is
\* brought up to it at the end of each round); totalTokens = inputTokens +
\* outputTokens; run returns the final values.
C35_CountersCountLogicalSteps ==
    /\ [](Running =>
            /\ agent.tokenUsage.totalTokens
                  = agent.tokenUsage.inputTokens + agent.tokenUsage.outputTokens
            /\ agent.rounds = AssistantCount
                  + (IF apc \in {"send", "roundBackoff"} \/ agentResult.status = "err"
                     THEN 1 ELSE 0)
            /\ agent.toolCallCount = ResultCount(agent.messages)
            /\ (apc \in {"callTool", "toolBackoff"}
                  => agent.count = agent.toolCallCount + agent.i + 1)
            /\ (apc = "toolDelay" => agent.count = agent.toolCallCount + agent.i)
            /\ (Returned
                  => /\ agentResult.rounds = agent.rounds
                     /\ agentResult.toolCallCount = agent.toolCallCount
                     /\ agentResult.tokenUsage = agent.tokenUsage))
    /\ [][ Running
              => /\ agent'.rounds >= agent.rounds
                 /\ agent'.rounds <= agent.rounds + 1
                 /\ agent'.toolCallCount >= agent.toolCallCount
                 /\ agent'.tokenUsage.inputTokens >= agent.tokenUsage.inputTokens
                 /\ agent'.tokenUsage.outputTokens >= agent.tokenUsage.outputTokens
                 /\ agent'.tokenUsage.totalTokens >= agent.tokenUsage.totalTokens
                 /\ (apc \in {"roundBackoff", "toolBackoff"} \/ BackendFails)
                      => /\ agent'.rounds = agent.rounds
                         /\ agent'.count = agent.count
                         /\ agent'.toolCallCount = agent.toolCallCount
                         /\ agent'.tokenUsage = agent.tokenUsage ]_vars

\* C35 witness: a run has returned 2 rounds and 3 tool calls after a round and
\* a call were retried: the last request and the last call were second attempts
C35_Witness ==
    /\ Returned
    /\ agentResult.rounds = 2 /\ agentResult.toolCallCount = 3
    /\ trace.sends = 2 /\ trace.calls = 2
    /\ agentResult.tokenUsage.totalTokens = 7

\* C36: after a callTool or readResource call has failed because the maximum
\* number of reconnect attempts was exceeded, the connection is abandoned: the
\* client is Disconnected and isConnected() is false, whatever the maximum.
C36_MaxExceededDisconnects ==
    (IsRemoteCall /\ pc = "idle" /\ outcome = MaxExceeded) => ~isConnected

\* what holds of C36: such a call leaves connected, session, transport and
\* both mappings as they were when its first attempt failed
C36_MaxExceededChangesNothing ==
    [][ (IsRemoteCall /\ pc = "call" /\ pc' = "idle" /\ outcome' = MaxExceeded)
          => /\ this' = [this EXCEPT !.reconnectAttempt = @ + 1]
             /\ io'.closes = 0 /\ io'.handshakes = 0 ]_vars

\* reconnect() has torn the old connection down and its connect() is running
Reconnecting == IsRemoteCall /\ inReconnect /\ pc \in {"handshake", "listTools"}

\* C37: reconnect() clears the tool and resource mappings when it tears the
\* old connection down: while the client is reconnecting, and after a
\* reconnect whose connect() failed, getToolCount() is 0 and getResources()
\* is empty.
C37_ReconnectClearsMappings ==
    (Reconnecting \/ ReconnectConnectFailed)
        => (getToolCount = 0 /\ getResources = <<>>)

\* what holds of C37: the teardown and a failed connect() of a reconnect
\* leave both mappings as the call found them
C37_ReconnectKeepsMappings ==
    [][ (IsRemoteCall /\ pc \in {"sleep", "teardownClient", "teardownTransport", "handshake"}
            /\ pc' \in {"teardownClient", "teardownTransport", "handshake", "listTools", "idle"})
          => (this'.tools = this.tools /\ this'.resources = this.resources) ]_vars

\* an error of the Connection Client that the retry wrapper does not retry
ClientFailure(err) == err \in ClientErrors /\ ~RateLimitTest(err.msg)

\* a step in which callTool throws such an error into the run
CallToolFailsInRun ==
    /\ apc = "callTool" /\ apc' # "callTool"
    /\ trace'.lastTool.type = "reject" /\ ClientFailure(trace'.lastTool.err)

\* C38: when callTool fails inside a run with a Connection Client error that
\* is not retry-worthy (not connected, unknown tool, tool timeout, connection
\* failure of a reconnect, max reconnect attempts exceeded), the run is aborted
\* and that error reaches the caller of run.
C38_ClientErrorAbortsRun ==
    [][ CallToolFailsInRun
          => (apc' = "done" /\ agentResult'.status = "err"
              /\ agentResult'.err = trace'.lastTool.err) ]_vars

\* C38 as amended: such an error does not abort the run.  The block gets the
\* error tool result 'Error: <message>' at once, without another attempt, the
\* round goes on, and no error of the Connection Client ever reaches the
\* caller of run.
C38_ClientErrorBecomesToolResult ==
    /\ [][ CallToolFailsInRun
              => /\ agent'.toolResults =
                      Append(agent.toolResults,
                             [toolResult |->
                                [toolUseId |-> CurrentBlock.toolUse.toolUseId,
                                 content |-> <<[text |-> <<"Error:">> \o trace'.lastTool.err.msg]>>,
                                 status |-> "error"]])
                 /\ trace'.calls = trace.calls
                 /\ agentResult'.status # "err"
                 /\ RoundGoesOn ]_vars
    /\ [](agentResult.status = "err" => agentResult.err \notin ClientErrors)

\* C38 witness: the first call of a round failed with 'Max reconnect attempts
\* (5) exceeded', the second with the tool timeout, and the next backend request
\* is pending with both error results in the conversation
C38_Witness ==
    /\ apc = "send" /\ agent.rounds = 2
    /\ Len(agent.toolResults) = 2
    /\ agent.toolResults[1].toolResult.content =
         <<[text |-> <<"Error:">> \o MsgMaxReconnect(DefaultMaxReconnectAttempts)]>>
    /\ agent.toolResults[1].toolResult.status = "error"
    /\ trace.lastTool.err = TimeoutError("mcp.callTool", DefaultToolTimeoutMs, "mcp")
    /\ agentResult.status = "none"

\* a step in which callTool sends a remote invocation: the first attempt, or
\* the retry after a reconnect
SendsToolCall == op' = "callTool" /\ pc' \in {"call", "retry"} /\ pc' # pc

\* C39: callTool never sends a remote invocation for a tool name that is absent
\* from the current tool mapping, the retry after a reconnect that re-ran
\* discovery included.
C39_NoCallForUnknownTool ==
    [][ SendsToolCall => MapHas(this'.tools, arg') ]_vars

\* what holds of C39: the first attempt is sent only for a name in the mapping
C39_FirstAttemptForKnownTool ==
    [][ (SendsToolCall /\ pc' = "call") => MapHas(this'.tools, arg') ]_vars

\* a step in which callTool / readResource enters reconnect()
ReconnectBegins == IsRemoteCall /\ pc = "call" /\ io'.reconnects = io.reconnects + 1

\* the positions of reconnect() between its sleep and its connect()
InTeardown == pc \in {"teardownClient", "teardownTransport"}

\* C40: the reconnect attempt that raises the counter to k, 1 <= k <=
\* maxReconnectAttempts, waits exactly reconnectBaseMs * 2^(k-1) ms before it
\* tears down and reconnects; one reconnect goes increment, limit check, wait,
\* teardown, connect, in this order; and after a connect that succeeded the
\* counter is back at 0, so that the next wait is reconnectBaseMs again.
C40_ExponentialBackoff ==
    /\ [][ ReconnectBegins
              => LET k == this'.reconnectAttempt IN
                 /\ k = this.reconnectAttempt + 1
                 /\ IF k <= maxReconnectAttempts
                    THEN /\ pc' = "sleep"
                         /\ delay' = reconnectBaseMs * Pow2(k - 1)
                         /\ io'.sleeps = 1
                    ELSE /\ pc' = "idle" /\ outcome' = MaxExceeded
                         /\ io'.sleeps = 0
                 /\ io'.closes = 0 /\ io'.handshakes = 0
                 /\ this' = [this EXCEPT !.reconnectAttempt = k] ]_vars
    /\ [](pc = "sleep"
            => /\ io.reconnects = 1 /\ io.sleeps = 1 /\ io.closes = 0 /\ io.handshakes = 0
               /\ 1 <= this.reconnectAttempt /\ this.reconnectAttempt <= maxReconnectAttempts
               /\ delay = reconnectBaseMs * Pow2(this.reconnectAttempt - 1))
    /\ [](InTeardown => (io.sleeps = 1 /\ io.handshakes = 0))
    /\ [](Reconnecting
            => /\ io.sleeps = 1 /\ io.handshakes = 1
               /\ (pc = "handshake" => ~this.connected))
    /\ [][ pc = "sleep" => \/ pc' = "sleep"
                        \/ InTeardown'
                        \/ (pc' = "handshake" /\ io'.closes = 0) ]_vars
    /\ [][ InTeardown => (InTeardown' \/ pc' = "handshake") ]_vars
    /\ [][ (pc = "handshake" /\ lastEvent'.what = "handshake" /\ lastEvent'.type = "resolve"
              /\ pc' # "handshake")
              => this'.reconnectAttempt = 0 ]_vars
    /\ [][ (ReconnectBegins /\ this.reconnectAttempt = 0 /\ maxReconnectAttempts >= 1)
              => delay' = reconnectBaseMs ]_vars

\* C40 witness: with the defaults the third reconnect attempt in a row is
\* waiting 4000 ms
C40_Witness ==
    /\ pc = "sleep" /\ maxReconnectAttempts = 5 /\ reconnectBaseMs = 1000
    /\ this.reconnectAttempt = 3 /\ delay = 4000

====
